---------------------------- MODULE Spec2Model ----------------------------
(***************************************************************************)
(* A model of the puzzle-booklet generator of stephen5ng/ac_sudoku.         *)
(*                                                                         *)
(* src/sudoku.js is the batch revision (one puzzle per row of the          *)
(* "Sudokus" sheet), src/sudoku.gs the single-puzzle revision, and          *)
(* src/unnamed/part_000 holds two intermediate revisions (lines 1-491 and   *)
(* lines 494-1102).                                                        *)
(*                                                                         *)
(* Strings are sequences of one-character strings, so that the string      *)
(* operations of the code (startsWith, toLowerCase, match, split, slice,    *)
(* includes) are computed and not assumed.  A JavaScript value is a record  *)
(* [t, n, half, s]: its type tag, its number (n, plus 1/2 when half), and   *)
(* its string.                                                             *)
(***************************************************************************)
EXTENDS Integers, Sequences, FiniteSets, TLC

VARIABLES
  sheet,       \* one row of the "Sudokus" sheet: columns A..D and the six image cells E..J
  refs,        \* the cells of other sheets an image formula may refer to: reference -> value
  answers,     \* the answers sheet: [name, values, weight], its name and the matrices of its cells
  array,       \* the puzzle grid handed to the validator and the slicing operations
  sections,    \* the slices the last slicing operation built, before they are sorted
  body,        \* the body of the document being written: a sequence of elements
  imageCache,  \* the process-wide Map of getImageBlob: locator -> blob
  fetched,     \* how often UrlFetchApp.fetch was called for each locator
  broken,      \* the locators for which UrlFetchApp.fetch throws
  pc,          \* the position of the run
  ret,         \* what the last operation returned or threw
  curRow,      \* the row of the "Sudokus" sheet main is processing (its variable row)
  docs,        \* the titles of the documents created, in the order of their creation
  workbook,    \* the template sheets and named ranges, and the grid sheets copied from them
  log          \* what was written to the console: [level, msg]

vars ==
  <<sheet, refs, answers, array, sections, body, imageCache, fetched, broken, pc, ret,
    curRow, docs, workbook, log>>

\* the part of the state only the batch driver and its last steps work on
Driver == <<curRow, docs, workbook, log>>

---------------------------------------------------------------------------
(* Program constants *)

GRID_SIZE_6 == 6
GRID_SIZE_4 == 4

---------------------------------------------------------------------------
(* JavaScript values *)

NullV == [t |-> "null", n |-> 0, half |-> FALSE, s |-> <<>>]
NumV(k) == [t |-> "number", n |-> k, half |-> FALSE, s |-> <<>>]
\* the non-integer number k + 1/2
HalfV(k) == [t |-> "number", n |-> k, half |-> TRUE, s |-> <<>>]
StrV(str) == [t |-> "string", n |-> 0, half |-> FALSE, s |-> str]
BoolV(b) == [t |-> "boolean", n |-> IF b THEN 1 ELSE 0, half |-> FALSE, s |-> <<>>]
\* a CellImage object (an image placed in a cell) and its content URL
ImageV(url) == [t |-> "image", n |-> 0, half |-> FALSE, s |-> url]
\* the value of an empty cell is the empty string
EmptyV == StrV(<<>>)

\* Number.isInteger(v)
IsInteger(v) == v.t = "number" /\ ~v.half

\* v >= k and v <= k for a number v and an integer k
NumGE(v, k) == v.n >= k
NumLE(v, k) == v.n < k \/ (v.n = k /\ ~v.half)

\* twice the number v: an integer that orders the numbers as they are ordered
Twice(v) == 2 * v.n + (IF v.half THEN 1 ELSE 0)

\* !v : the value is falsy
Falsy(v) ==
  CASE v.t = "null" -> TRUE
    [] v.t = "string" -> v.s = <<>>
    [] v.t = "number" -> v.n = 0 /\ ~v.half
    [] v.t = "boolean" -> v.n = 0
    [] OTHER -> FALSE

\* String(v) == "CellImage"
StringIsCellImage(v) ==
  \/ v.t = "image"
  \/ v.t = "string" /\ v.s = <<"C","e","l","l","I","m","a","g","e">>

---------------------------------------------------------------------------
(* Strings *)

LowerChar(c) ==
  CASE c = "I" -> "i"
    [] c = "M" -> "m"
    [] c = "A" -> "a"
    [] c = "G" -> "g"
    [] c = "E" -> "e"
    [] c = "C" -> "c"
    [] c = "S" -> "s"
    [] c = "B" -> "b"
    [] OTHER -> c

toLowerCase(str) == [i \in 1..Len(str) |-> LowerChar(str[i])]

\* str.startsWith(p, at): p occurs in str at (1-based) position at
OccursAt(str, p, at) ==
  /\ at + Len(p) - 1 <= Len(str)
  /\ \A i \in 1..Len(p) : str[at + i - 1] = p[i]

\* a prefix test that every string passes
startsWithAnything(str, p) == TRUE

startsWith(str, p) == OccursAt(str, p, 1)

endsWith(str, p) == Len(p) <= Len(str) /\ OccursAt(str, p, Len(str) - Len(p) + 1)

includes(str, c) == \E i \in 1..Len(str) : str[i] = c

\* str.slice(1, -1)
sliceInner(str) == IF Len(str) <= 2 THEN <<>> ELSE SubSeq(str, 2, Len(str) - 1)

IsSpace(c) == c = " "

\* str.trim() === ''
TrimIsEmpty(str) == \A i \in 1..Len(str) : IsSpace(str[i])

\* str.split(sep): the parts between the occurrences of the character sep
RECURSIVE split(_, _)
split(str, sep) ==
  IF ~includes(str, sep) THEN <<str>>
  ELSE LET k == CHOOSE i \in 1..Len(str) :
                  str[i] = sep /\ \A j \in 1..(i - 1) : str[j] # sep
       IN  <<SubSeq(str, 1, k - 1)>> \o split(SubSeq(str, k + 1, Len(str)), sep)

IMAGE_PREFIX == <<"=","i","m","a","g","e","(">>

\* a match at position p that also takes an empty run of characters
MatchAtOrEmpty(formula, p) ==
  IF ~OccursAt(toLowerCase(formula), IMAGE_PREFIX, p) THEN <<FALSE, <<>>>>
  ELSE LET from == p + Len(IMAGE_PREFIX)
           closes == {i \in from..Len(formula) : formula[i] = ")"}
       IN  IF closes = {} THEN <<FALSE, <<>>>>
           ELSE LET close == CHOOSE i \in closes : \A j \in closes : i <= j
                IN  <<TRUE, SubSeq(formula, from, close - 1)>>

\* formula.match(/=image\(([^)]+)\)/i) at position p: "=image(" in any case, then
\* the longest run of characters other than ")", which must not be empty and
\* must be followed by ")".  <<TRUE, content>> or <<FALSE, <<>>>>.
MatchAt(formula, p) ==
  IF ~OccursAt(toLowerCase(formula), IMAGE_PREFIX, p) THEN <<FALSE, <<>>>>
  ELSE LET from == p + Len(IMAGE_PREFIX)
           closes == {i \in from..Len(formula) : formula[i] = ")"}
       IN  IF closes = {} THEN <<FALSE, <<>>>>
           ELSE LET close == CHOOSE i \in closes : \A j \in closes : i <= j
                IN  IF close = from THEN <<FALSE, <<>>>>
                    ELSE <<TRUE, SubSeq(formula, from, close - 1)>>

\* the regular expression is not anchored: the first position where it matches
matchImage(formula) ==
  LET hits == {p \in 1..Len(formula) : MatchAt(formula, p)[1]}
  IN  IF hits = {} THEN <<FALSE, <<>>>>
      ELSE MatchAt(formula, CHOOSE p \in hits : \A q \in hits : p <= q)


---------------------------------------------------------------------------
(* The data source.  A row of the "Sudokus" sheet is the record             *)
(* [A, B, C, D, img]: the shortname, the longname, the reference to the      *)
(* answers ("Sheet!Cell"), the mayOnlyContain flag, and the six cells of     *)
(* the scan window (columns E..J in sudoku.js, D..I in part_000), each       *)
(* [value, formula].                                                        *)

Cell(v, f) == [value |-> v, formula |-> f]

\* the column of the first image cell: getRange(row, num + 4) in sudoku.js
IMAGE_COLUMN_SHIFT == 4

\* sheet.getRange(row, col) for a column of the scan window
ImageCell(row, col) == sheet[row].img[col - IMAGE_COLUMN_SHIFT]

\* the predicate of getGridSize in sudoku.js: an in-cell image or an image formula
IsImageCell(cell) ==
  \/ StringIsCellImage(cell.value)
  \/ startsWith(toLowerCase(cell.formula), IMAGE_PREFIX)

\* the predicate of getGridSize in part_000: an image formula only
IsImageFormulaCell(cell) == startsWith(toLowerCase(cell.formula), IMAGE_PREFIX)

\* a resolver that takes five images for a 6x6 grid
getGridSizeLenient(row) ==
  LET count == Cardinality({i \in 5..10 : IsImageCell(ImageCell(row, i))})
  IN  IF count = 4 THEN [ok |-> TRUE, val |-> GRID_SIZE_4, err |-> "", count |-> count]
      ELSE IF count >= 5 THEN [ok |-> TRUE, val |-> GRID_SIZE_6, err |-> "", count |-> count]
      ELSE [ok |-> FALSE, val |-> 0, err |-> "InvalidGridSize", count |-> count]

\* getGridSize(row) of sudoku.js: the count over columns 5..10 decides
getGridSize(row) ==
  LET count == Cardinality({i \in 5..10 : IsImageCell(ImageCell(row, i))})
  IN  IF count = 4 THEN [ok |-> TRUE, val |-> GRID_SIZE_4, err |-> "", count |-> count]
      ELSE IF count = 6 THEN [ok |-> TRUE, val |-> GRID_SIZE_6, err |-> "", count |-> count]
      ELSE [ok |-> FALSE, val |-> 0, err |-> "InvalidGridSize", count |-> count]

\* getGridSize() of the second revision of part_000: six cells from column D
getGridSizeP2(row) ==
  LET count == Cardinality({i \in 1..6 : IsImageFormulaCell(sheet[row].img[i])})
  IN  IF count = 4 THEN [ok |-> TRUE, val |-> GRID_SIZE_4, err |-> "", count |-> count]
      ELSE IF count = 6 THEN [ok |-> TRUE, val |-> GRID_SIZE_6, err |-> "", count |-> count]
      ELSE [ok |-> FALSE, val |-> 0, err |-> "InvalidGridSize", count |-> count]

\* getAnswersSheetInfo(row): column C split at "!"
getAnswersSheetInfo(row) ==
  LET cellValue == sheet[row].C
      parts == split(cellValue.s, "!")
      bad(e) == [ok |-> FALSE, sheetName |-> <<>>, startCell |-> <<>>, err |-> e]
  IN  IF row < 2 THEN bad("InvalidRow")
      ELSE IF Falsy(cellValue) \/ cellValue.t # "string" THEN bad("InvalidSheetReference")
      ELSE IF Len(parts) < 2 \/ parts[1] = <<>> \/ parts[2] = <<>>
           THEN bad("InvalidSheetReferenceFormat")
      ELSE [ok |-> TRUE, sheetName |-> parts[1], startCell |-> parts[2], err |-> ""]

\* a size that does not depend on the name
SizeFromNameSix(name) == GRID_SIZE_6

\* answersSheetName.includes('6') ? GRID_SIZE_6 : GRID_SIZE_4
SizeFromName(name) == IF includes(name, "6") THEN GRID_SIZE_6 ELSE GRID_SIZE_4

\* the result of getImageFromCell: the locator, or the error with the column
\* letter it names (as a character code); reads lists the cells read
\* ref is the reference the message of a failed lookup names
Locator(url, reads) ==
  [ok |-> TRUE, url |-> url, err |-> "", col |-> 0, reads |-> reads, ref |-> <<>>]
Thrown(e, col, reads) ==
  [ok |-> FALSE, url |-> <<>>, err |-> e, col |-> col, reads |-> reads, ref |-> <<>>]

\* a lookup that returns whatever string the referenced cell holds
followReferenceUnchecked(content, reads) ==
  IF content \notin DOMAIN refs THEN [Thrown("BadReference", 0, reads) EXCEPT !.ref = content]
  ELSE Locator(refs[content].s, reads \o <<"ref">>)

\* the cross-sheet branch of getImageFromCell in sudoku.js
followReference(content, reads) ==
  IF content \notin DOMAIN refs THEN [Thrown("BadReference", 0, reads) EXCEPT !.ref = content]
  ELSE LET value == refs[content]
       IN  IF Falsy(value) \/ value.t # "string" \/ TrimIsEmpty(value.s)
           THEN [Thrown("EmptyReference", 0, reads \o <<"ref">>) EXCEPT !.ref = content]
           ELSE Locator(value.s, reads \o <<"ref">>)

\* the cross-sheet branch of getImageFromCell in sudoku.gs: no test for blanks
followReferenceGS(content, reads) ==
  IF content \notin DOMAIN refs THEN [Thrown("BadReference", 0, reads) EXCEPT !.ref = content]
  ELSE LET url == refs[content]
       IN  IF Falsy(url) \/ url.t # "string"
           THEN [Thrown("EmptyReference", 0, reads \o <<"ref">>) EXCEPT !.ref = content]
           ELSE Locator(url.s, reads \o <<"ref">>)

\* String.fromCharCode(65 + num + 3): the column letter the errors name
ErrorColumn(num) == 65 + num + 3

\* the part of getImageFromCell in sudoku.js that classifies the extracted content
resolveContent(content, reads) ==
  IF startsWith(content, <<"\"">>) /\ endsWith(content, <<"\"">>)
  THEN Locator(sliceInner(content), reads)
  ELSE IF includes(content, "!") THEN followReference(content, reads)
  ELSE Locator(content, reads)

\* getImageFromCell(num, row) of sudoku.js
getImageFromCell(num, row) ==
  LET info == getAnswersSheetInfo(row)
      gridSize == SizeFromName(info.sheetName)
      cell == ImageCell(row, num + IMAGE_COLUMN_SHIFT)
      formula == cell.formula
      match == matchImage(formula)
  IN  IF ~info.ok THEN Thrown(info.err, 0, <<"C">>)
      ELSE IF num < 1 \/ num > gridSize THEN Thrown("OutOfRange", 0, <<"C">>)
      ELSE IF formula = <<>>
           THEN IF cell.value.t = "image"
                THEN Locator(cell.value.s, <<"C", "img">>)
                ELSE Thrown("TypeError", 0, <<"C", "img">>)
      ELSE IF ~startsWith(toLowerCase(formula), IMAGE_PREFIX)
           THEN Thrown("MissingFormula", ErrorColumn(num), <<"C", "img">>)
      ELSE IF ~match[1] THEN Thrown("InvalidFormula", ErrorColumn(num), <<"C", "img">>)
      ELSE resolveContent(match[2], <<"C", "img">>)

\* getImageFromCell(num) of sudoku.gs: the cell of number num is the num-th cell
\* of the image row; GRID_SIZE is 6
getImageFromCellGS(num, row) ==
  LET formula == sheet[row].img[num].formula
      match == matchImage(formula)
      content == match[2]
  IN  IF num < 1 \/ num > GRID_SIZE_6 THEN Thrown("OutOfRange", 0, <<>>)
      ELSE IF ~startsWith(toLowerCase(formula), IMAGE_PREFIX)
           THEN Thrown("MissingFormula", 65 + num, <<"img">>)
      ELSE IF ~match[1] THEN Thrown("InvalidFormula", 65 + num, <<"img">>)
      ELSE IF startsWith(content, <<"\"">>) /\ endsWith(content, <<"\"">>)
           THEN Locator(sliceInner(content), <<"img">>)
      ELSE IF includes(content, "!") THEN followReferenceGS(content, <<"img">>)
      ELSE Locator(content, <<"img">>)

---------------------------------------------------------------------------
(* The answers sheet: values[r][c] and weight[r][c] are the value and the    *)
(* font weight of the cell in row r and column c of the sheet; a cell       *)
(* outside the matrices is empty and of normal weight.                       *)

ValueAt(r, c) ==
  IF r \in 1..Len(answers.values) /\ c \in 1..Len(answers.values[r])
  THEN answers.values[r][c] ELSE EmptyV

\* cell.getFontWeight(): "bold", "normal", or "error" when the read throws
WeightAt(r, c) ==
  IF r \in 1..Len(answers.weight) /\ c \in 1..Len(answers.weight[r])
  THEN answers.weight[r][c] ELSE "normal"

Letters == {"A", "B", "C", "D", "E", "F", "G", "H"}
Digits == {"0", "1", "2", "3", "4", "5", "6", "7", "8", "9"}

\* the number of the column letter: charCodeAt(0) - 64
LetterNumber(c) ==
  CASE c = "A" -> 1 [] c = "B" -> 2 [] c = "C" -> 3 [] c = "D" -> 4
    [] c = "E" -> 5 [] c = "F" -> 6 [] c = "G" -> 7 [] c = "H" -> 8

\* parseInt of one digit
DigitNumber(c) ==
  CASE c = "0" -> 0 [] c = "1" -> 1 [] c = "2" -> 2 [] c = "3" -> 3 [] c = "4" -> 4
    [] c = "5" -> 5 [] c = "6" -> 6 [] c = "7" -> 7 [] c = "8" -> 8 [] c = "9" -> 9

\* the first character of startCell.match(/[A-Z]+/)[0], and whether there is a match
FirstLetterAt(str) ==
  LET at == {i \in 1..Len(str) : str[i] \in Letters}
  IN  IF at = {} THEN 0 ELSE CHOOSE i \in at : \A j \in at : i <= j

\* the first character of startCell.match(/\d+/)[0], and whether there is a match
FirstDigitAt(str) ==
  LET at == {i \in 1..Len(str) : str[i] \in Digits}
  IN  IF at = {} THEN 0 ELSE CHOOSE i \in at : \A j \in at : i <= j

\* parseInt of the run of digits that starts at position i
RECURSIVE DigitsValue(_, _, _)
DigitsValue(str, i, acc) ==
  IF i > Len(str) \/ str[i] \notin Digits THEN acc
  ELSE DigitsValue(str, i + 1, 10 * acc + DigitNumber(str[i]))

\* a toggle that is always on
getMayOnlyContainAlways(row) == TRUE

\* Boolean(value) of column D
getMayOnlyContain(row) == ~Falsy(sheet[row].D)

\* a getSudokuPuzzle that takes the value of every selected cell as it is
getSudokuPuzzleUnfiltered(row) ==
  LET info == getAnswersSheetInfo(row)
      size == getGridSize(row)
      gridSize == size.val
      letterAt == FirstLetterAt(info.startCell)
      digitAt == FirstDigitAt(info.startCell)
      startCol == LetterNumber(info.startCell[letterAt])
      startRow == DigitsValue(info.startCell, digitAt, 0)
      mayOnlyContain == getMayOnlyContain(row)
      puzzleCell(i, j) ==
        LET value == ValueAt(startRow + i, startCol + j)
            isSpecified == WeightAt(startRow + i, startCol + j) = "bold"
            shouldInclude == IF mayOnlyContain THEN isSpecified ELSE ~isSpecified
        IN  IF shouldInclude THEN value ELSE NullV
      bad(e) == [ok |-> FALSE, val |-> <<>>, err |-> e]
  IN  IF ~info.ok THEN bad(info.err)
      ELSE IF ~size.ok THEN bad(size.err)
      ELSE IF letterAt = 0 \/ digitAt = 0 THEN bad("TypeError")
      ELSE IF info.sheetName # answers.name THEN bad("SheetNotFound")
      ELSE [ok |-> TRUE, err |-> "",
            val |-> [i \in 1..gridSize |-> [j \in 1..gridSize |-> puzzleCell(i - 1, j - 1)]]]

\* getSudokuPuzzle(row) of sudoku.js: the cells of the answers that are selected
\* (the specified ones when mayOnlyContain, the others when not) and hold an
\* integer in [1, gridSize]; null elsewhere
getSudokuPuzzle(row) ==
  LET info == getAnswersSheetInfo(row)
      size == getGridSize(row)
      gridSize == size.val
      letterAt == FirstLetterAt(info.startCell)
      digitAt == FirstDigitAt(info.startCell)
      startCol == LetterNumber(info.startCell[letterAt])
      startRow == DigitsValue(info.startCell, digitAt, 0)
      mayOnlyContain == getMayOnlyContain(row)
      puzzleCell(i, j) ==
        LET value == ValueAt(startRow + i, startCol + j)
            isSpecified == WeightAt(startRow + i, startCol + j) = "bold"
            shouldInclude == IF mayOnlyContain THEN isSpecified ELSE ~isSpecified
        IN  IF shouldInclude /\ IsInteger(value) /\ NumGE(value, 1) /\ NumLE(value, gridSize)
            THEN value ELSE NullV
      bad(e) == [ok |-> FALSE, val |-> <<>>, err |-> e]
  IN  IF ~info.ok THEN bad(info.err)
      ELSE IF ~size.ok THEN bad(size.err)
      ELSE IF letterAt = 0 \/ digitAt = 0 THEN bad("TypeError")
      ELSE IF info.sheetName # answers.name THEN bad("SheetNotFound")
      ELSE [ok |-> TRUE, err |-> "",
            val |-> [i \in 1..gridSize |-> [j \in 1..gridSize |-> puzzleCell(i - 1, j - 1)]]]

---------------------------------------------------------------------------
(* Validation and group topology *)

\* cell === null || (cell >= 1 && cell <= gridSize), for a cell that is null or a number
CellAccepted(cell, gridSize) ==
  cell.t = "null" \/ (cell.t = "number" /\ NumGE(cell, 1) /\ NumLE(cell, gridSize))

\* validateSudokuArray(array, row) of sudoku.js: "" when it returns, the error when it throws
validateSudokuArray(arr, row) ==
  LET size == getGridSize(row)
      gridSize == size.val
  IN  IF ~size.ok THEN size.err
      ELSE IF Len(arr) # gridSize THEN "ArrayDimensions"
      ELSE IF \E i \in 1..Len(arr) : Len(arr[i]) # gridSize THEN "RowDimensions"
      ELSE IF \E i \in 1..Len(arr) : \E j \in 1..Len(arr[i]) : ~CellAccepted(arr[i][j], gridSize)
           THEN "CellValues"
      ELSE ""

Boundary(rs, re, cs, ce) == [rowStart |-> rs, rowEnd |-> re, colStart |-> cs, colEnd |-> ce]

\* 2x3 groups of the 6x6 grid, 0-indexed and inclusive
GROUP_BOUNDARIES_6 ==
  << Boundary(0, 1, 0, 2), Boundary(0, 1, 3, 5),
     Boundary(2, 3, 0, 2), Boundary(2, 3, 3, 5),
     Boundary(4, 5, 0, 2), Boundary(4, 5, 3, 5) >>

\* a 4x4 topology whose second group overlaps the first and leaves a gap
GROUP_BOUNDARIES_4_Shifted ==
  << Boundary(0, 1, 0, 1), Boundary(0, 1, 1, 2),
     Boundary(2, 3, 0, 1), Boundary(2, 3, 2, 3) >>

\* 2x2 groups of the 4x4 grid
GROUP_BOUNDARIES_4 ==
  << Boundary(0, 1, 0, 1), Boundary(0, 1, 2, 3),
     Boundary(2, 3, 0, 1), Boundary(2, 3, 2, 3) >>

getGroupBoundaries(gridSize) ==
  IF gridSize = GRID_SIZE_4 THEN GROUP_BOUNDARIES_4 ELSE GROUP_BOUNDARIES_6

---------------------------------------------------------------------------
(* The document and the image fetches *)

MUST_NOT_CONTAIN == "must not contain any of these values"
MAY_ONLY_CONTAIN == "may only contain one of these values"

\* the elements of a document body; the images of a paragraph are kept with the
\* grid value each stands for
Heading(text) == [type |-> "heading", text |-> text, index |-> 0, images |-> <<>>]
Paragraph(prefix, k, images) ==
  [type |-> "paragraph", text |-> prefix, index |-> k, images |-> images]
EmptyParagraph == Paragraph(<<>>, 0, <<>>)
HorizontalRule == [type |-> "rule", text |-> <<>>, index |-> 0, images |-> <<>>]
PageBreak == [type |-> "pagebreak", text |-> <<>>, index |-> 0, images |-> <<>>]

Item(url, value) == [url |-> url, value |-> value]

\* const x = v; f(x): v is evaluated once, before f is entered
With(v, f(_)) == CHOOSE r \in {f(x) : x \in {v}} : TRUE

Count(f, u) == IF u \in DOMAIN f THEN f[u] ELSE 0
Bump(f, u) == [x \in DOMAIN f \cup {u} |-> Count(f, x) + (IF x = u THEN 1 ELSE 0)]

\* the blob of a fetched image after setContentType('image/png')
Blob(url, ver) == [src |-> url, ver |-> ver, contentType |-> "image/png"]

\* the document and the fetch bookkeeping an operation works on
Doc(b, cache, fetches) ==
  [body |-> b, cache |-> cache, fetched |-> fetches, ok |-> TRUE, err |-> ""]

\* a getImageBlob that fetches and returns the blob without storing it
getImageBlobForgetful(cache, fetches, url, ver) ==
  IF url \in DOMAIN cache
  THEN [threw |-> FALSE, blob |-> cache[url], cache |-> cache, fetched |-> fetches]
  ELSE IF url \in broken
  THEN [threw |-> TRUE, blob |-> Blob(<<>>, 0), cache |-> cache, fetched |-> Bump(fetches, url)]
  ELSE [threw |-> FALSE, blob |-> Blob(url, ver), cache |-> cache, fetched |-> Bump(fetches, url)]

\* getImageBlob(url): the cached blob, or the blob fetched (in version ver) and stored
getImageBlob(cache, fetches, url, ver) ==
  IF url \in DOMAIN cache
  THEN [threw |-> FALSE, blob |-> cache[url], cache |-> cache, fetched |-> fetches]
  ELSE IF url \in broken
  THEN [threw |-> TRUE, blob |-> Blob(<<>>, 0), cache |-> cache, fetched |-> Bump(fetches, url)]
  ELSE [threw |-> FALSE, blob |-> Blob(url, ver),
        cache |-> [x \in DOMAIN cache \cup {url} |-> IF x = url THEN Blob(url, ver) ELSE cache[x]],
        fetched |-> Bump(fetches, url)]

\* insertImage(paragraph, url) of sudoku.js: fetches the locator itself
insertImage(st, url) ==
  [threw |-> url \in broken, cache |-> st.cache, fetched |-> Bump(st.fetched, url)]

\* insertImage(paragraph, url) of part_000: through getImageBlob
insertImageP(st, url) ==
  LET got == getImageBlob(st.cache, st.fetched, url, 1)
  IN  [threw |-> got.threw, cache |-> got.cache, fetched |-> got.fetched]

\* items.forEach(item => insertImage(paragraph, item.url)) from item m on; st is
\* [body, cache, fetched, ok] and the paragraph is the last element of st.body
RECURSIVE InsertImages(_, _, _, _)
InsertImages(items, m, st, cached) ==
  IF m > Len(items) THEN st
  ELSE With(IF cached THEN insertImageP(st, items[m].url) ELSE insertImage(st, items[m].url),
         LAMBDA got :
           IF got.threw
           THEN [st EXCEPT !.ok = FALSE, !.cache = got.cache, !.fetched = got.fetched]
           ELSE With([st EXCEPT !.cache = got.cache, !.fetched = got.fetched,
                                !.body[Len(st.body)].images = Append(@, items[m])],
                     LAMBDA next : InsertImages(items, m + 1, next, cached)))

\* section.sort((a, b) => a.value - b.value): a stable sort by value
RECURSIVE InsertSorted(_, _)
InsertSorted(sorted, item) ==
  IF sorted = <<>> THEN <<item>>
  ELSE IF Twice(Head(sorted).value) <= Twice(item.value)
       THEN <<Head(sorted)>> \o InsertSorted(Tail(sorted), item)
       ELSE <<item>> \o sorted

\* the section left in the order of its extraction
sortByValueOmitted(section) == section

RECURSIVE sortByValue(_)
sortByValue(section) ==
  IF section = <<>> THEN <<>>
  ELSE With(sortByValue(SubSeq(section, 1, Len(section) - 1)),
            LAMBDA sorted : InsertSorted(sorted, section[Len(section)]))

\* the loop of outputSection from section k on; rule tells whether the revision
\* appends a horizontal rule after each section
RECURSIVE RenderSections(_, _, _, _, _, _)
RenderSections(secs, k, st, prefix, cached, rule) ==
  IF k > Len(secs) THEN [st EXCEPT !.body = Append(@, PageBreak)]
  ELSE With([st EXCEPT !.body = Append(@, Paragraph(<<prefix>>, k, <<>>))],
         LAMBDA opened :
           With(With(sortByValue(secs[k]), LAMBDA sorted : InsertImages(sorted, 1, opened, cached)),
             LAMBDA filled :
               IF ~filled.ok THEN filled
               ELSE With([filled EXCEPT !.body = @ \o (IF rule THEN <<EmptyParagraph, HorizontalRule>>
                                                        ELSE <<EmptyParagraph>>)],
                         LAMBDA next : RenderSections(secs, k + 1, next, prefix, cached, rule))))

\* outputSection(body, title, sections, prefix) of sudoku.js
outputSection(st, title, secs, prefix) ==
  RenderSections(secs, 1, [st EXCEPT !.body = Append(@, Heading(title))], prefix, FALSE, TRUE)

\* outputSection of the second revision of part_000 (images through the cache)
outputSectionP2(st, title, secs, prefix) ==
  RenderSections(secs, 1, [st EXCEPT !.body = Append(@, Heading(title))], prefix, TRUE, TRUE)

\* outputSection of the first revision of part_000 (no horizontal rule)
outputSectionP1(st, title, secs, prefix) ==
  RenderSections(secs, 1, [st EXCEPT !.body = Append(@, Heading(title))], prefix, TRUE, FALSE)

\* getSectionTitle(sectionType, row)
getSectionTitle(sectionType, row) ==
  <<sectionType, IF getMayOnlyContain(row) THEN MAY_ONLY_CONTAIN ELSE MUST_NOT_CONTAIN>>

---------------------------------------------------------------------------
(* Slicing *)

RECURSIVE Flatten(_)
Flatten(seqs) == IF seqs = <<>> THEN <<>> ELSE Head(seqs) \o Flatten(Tail(seqs))

\* visits that differ from those of the code: rows from right to left, columns
\* read along the rows, and boxes column by column
RowCellsReversed(arr) ==
  [i \in 1..Len(arr) |-> [j \in 1..Len(arr[i]) |-> <<i - 1, Len(arr[i]) - j>>]]
ColumnCellsAlongRows(arr, gridSize) ==
  [j \in 1..gridSize |-> [i \in 1..Len(arr) |-> <<j - 1, i - 1>>]]
BoundaryCellsByColumn(b) ==
  LET width == b.colEnd - b.colStart + 1
      height == b.rowEnd - b.rowStart + 1
  IN  [k \in 1..(width * height) |->
         <<b.rowStart + ((k - 1) % height), b.colStart + ((k - 1) \div height)>>]

\* the cells, as 0-based <<i, j>>, each slice visits, in the order of the visit
RowCells(arr) == [i \in 1..Len(arr) |-> [j \in 1..Len(arr[i]) |-> <<i - 1, j - 1>>]]
ColumnCells(arr, gridSize) ==
  [j \in 1..gridSize |-> [i \in 1..Len(arr) |-> <<i - 1, j - 1>>]]
BoundaryCells(b) ==
  LET width == b.colEnd - b.colStart + 1
      height == b.rowEnd - b.rowStart + 1
  IN  [k \in 1..(width * height) |->
         <<b.rowStart + ((k - 1) \div width), b.colStart + ((k - 1) % width)>>]
GroupCells(boundaries) == [g \in 1..Len(boundaries) |-> BoundaryCells(boundaries[g])]

At(arr, c) == arr[c[1] + 1][c[2] + 1]

\* the map/filter of outputRows, outputColumns and outputGroups: every non-null
\* cell is resolved, in the order of the visit; a cell whose locator is falsy is
\* left out; the first resolution that throws ends the operation
buildSections(cells, arr, row) ==
  LET \* the data source does not change during the operation: each number
      \* resolves to the same result every time
      build(visited, table) ==
        LET resolved(c) == IF At(arr, c).n \in 1..6 THEN table[At(arr, c).n]
                           ELSE getImageFromCell(At(arr, c).n, row)
            failing == {k \in 1..Len(visited) :
                          At(arr, visited[k]).t # "null" /\ ~resolved(visited[k]).ok}
            kept(c) == At(arr, c).t # "null" /\ resolved(c).url # <<>>
            items(list) ==
              With(SelectSeq(list, kept),
                   LAMBDA keptCells :
                     [m \in 1..Len(keptCells) |->
                        Item(resolved(keptCells[m]).url, At(arr, keptCells[m]))])
        IN  IF failing # {}
            THEN [ok |-> FALSE, val |-> <<>>,
                  err |-> resolved(visited[CHOOSE k \in failing : \A l \in failing : k <= l]).err]
            ELSE [ok |-> TRUE, val |-> [s \in 1..Len(cells) |-> items(cells[s])], err |-> ""]
  IN  With(Flatten(cells),
        LAMBDA visited :
          With(<<getImageFromCell(1, row), getImageFromCell(2, row), getImageFromCell(3, row),
                 getImageFromCell(4, row), getImageFromCell(5, row), getImageFromCell(6, row)>>,
               LAMBDA table : build(visited, table)))

\* what a slicing operation leaves: the sections built, the document and the
\* fetches, and the error thrown ("" when it returned)
Outcome(secs, st, err) ==
  [sections |-> secs, body |-> st.body, cache |-> st.cache, fetched |-> st.fetched, err |-> err]

\* a course that checks the dimensions of the grid only, not its cells
outputSlicesCellsUnchecked(sectionType, prefix, cells, arr, st, row) ==
  LET invalid == validateSudokuArray(arr, row)
  IN  IF invalid \notin {"", "CellValues"} THEN Outcome(<<>>, st, invalid)
      ELSE With(buildSections(cells, arr, row),
             LAMBDA built :
               IF ~built.ok THEN Outcome(<<>>, st, built.err)
               ELSE With(outputSection(st, getSectionTitle(sectionType, row), built.val, prefix),
                      LAMBDA done :
                        Outcome(built.val, done, IF done.ok THEN "" ELSE "InsertImage")))

\* a course that appends the section header before it resolves the locators
outputSlicesHeaderFirst(sectionType, prefix, cells, arr, st, row) ==
  LET invalid == validateSudokuArray(arr, row)
      info == getAnswersSheetInfo(row)
      headed == [st EXCEPT !.body = Append(@, Heading(getSectionTitle(sectionType, row)))]
  IN  IF invalid # "" THEN Outcome(<<>>, st, invalid)
      ELSE IF ~info.ok THEN Outcome(<<>>, st, info.err)
      ELSE With(buildSections(cells, arr, row),
             LAMBDA built :
               IF ~built.ok THEN Outcome(<<>>, headed, built.err)
               ELSE With(outputSection(st, getSectionTitle(sectionType, row), built.val, prefix),
                      LAMBDA done :
                        Outcome(built.val, done, IF done.ok THEN "" ELSE "InsertImage")))

\* the common course of outputRows, outputColumns and outputGroups in sudoku.js
outputSlices(sectionType, prefix, cells, arr, st, row) ==
  LET invalid == validateSudokuArray(arr, row)
      info == getAnswersSheetInfo(row)
  IN  IF invalid # "" THEN Outcome(<<>>, st, invalid)
      ELSE IF ~info.ok THEN Outcome(<<>>, st, info.err)
      ELSE With(buildSections(cells, arr, row),
             LAMBDA built :
               IF ~built.ok THEN Outcome(<<>>, st, built.err)
               ELSE With(outputSection(st, getSectionTitle(sectionType, row), built.val, prefix),
                      LAMBDA done :
                        Outcome(built.val, done, IF done.ok THEN "" ELSE "InsertImage")))

outputRows(arr, st, row) == outputSlices("ROWS", "ROW", RowCells(arr), arr, st, row)

outputColumns(arr, st, row) ==
  outputSlices("COLUMNS", "COLUMN", ColumnCells(arr, getGridSize(row).val), arr, st, row)

outputGroups(arr, st, row) ==
  outputSlices("GROUPS", "GROUP",
               GroupCells(getGroupBoundaries(getGridSize(row).val)), arr, st, row)

\* the loop of createReferencePage from number num on
RECURSIVE ReferenceRows(_, _, _, _)
ReferenceRows(num, gridSize, st, row) ==
  IF num > gridSize THEN st
  ELSE With([st EXCEPT !.body = Append(@, EmptyParagraph)],
         LAMBDA opened :
           With(getImageFromCell(num, row),
             LAMBDA got :
               IF ~got.ok THEN [opened EXCEPT !.ok = FALSE, !.err = got.err]
               ELSE With(With([i \in 1..gridSize |-> Item(got.url, NumV(num))],
                              LAMBDA copies : InsertImages(copies, 1, opened, FALSE)),
                      LAMBDA filled :
                        IF ~filled.ok THEN [filled EXCEPT !.err = "InsertImage"]
                        ELSE With([filled EXCEPT !.body = Append(@, EmptyParagraph)],
                                  LAMBDA next : ReferenceRows(num + 1, gridSize, next, row)))))

\* a reference page whose loop starts with number 2
createReferencePageFromTwo(st, row) ==
  LET headed == [st EXCEPT !.body = @ \o <<PageBreak, Heading(<<"Reference Images">>)>>]
      size == getGridSize(row)
  IN  IF ~size.ok THEN [headed EXCEPT !.ok = FALSE, !.err = size.err]
      ELSE With(headed, LAMBDA st0 : ReferenceRows(2, size.val, st0, row))

\* createReferencePage(body, row) of sudoku.js
createReferencePage(st, row) ==
  LET headed == [st EXCEPT !.body = @ \o <<PageBreak, Heading(<<"Reference Images">>)>>]
      size == getGridSize(row)
      info == getAnswersSheetInfo(row)
  IN  IF ~size.ok THEN [headed EXCEPT !.ok = FALSE, !.err = size.err]
      ELSE IF ~info.ok THEN [headed EXCEPT !.ok = FALSE, !.err = info.err]
      ELSE With(headed, LAMBDA st0 : ReferenceRows(1, size.val, st0, row))

\* getAnswers(answersSheetName, startCell): the window of the answers sheet that
\* starts at the start cell, every cell of which must be an integer in [1, gridSize]
getAnswers(answersSheetName, startCell) ==
  LET gridSize == SizeFromName(answersSheetName)
      letterAt == FirstLetterAt(startCell)
      digitAt == FirstDigitAt(startCell)
      startCol == LetterNumber(startCell[letterAt])
      startRow == DigitsValue(startCell, digitAt, 0)
      values == [i \in 1..gridSize |->
                   [j \in 1..gridSize |-> ValueAt(startRow + i - 1, startCol + j - 1)]]
      bad(e) == [ok |-> FALSE, val |-> <<>>, err |-> e]
  IN  IF letterAt = 0 \/ digitAt = 0 THEN bad("TypeError")
      ELSE IF answersSheetName # answers.name THEN bad("SheetNotFound")
      ELSE IF \E i \in 1..gridSize : \E j \in 1..gridSize :
                ~(IsInteger(values[i][j]) /\ NumGE(values[i][j], 1)
                    /\ NumLE(values[i][j], gridSize))
           THEN bad("InvalidAnswers")
      ELSE [ok |-> TRUE, val |-> values, err |-> ""]

\* answers.forEach of createAnswersSheet from answer row k on; table holds the
\* resolution of each number
RECURSIVE SolutionRows(_, _, _, _)
SolutionRows(k, rows, st, table) ==
  IF k > Len(rows) THEN st
  ELSE LET answerRow == rows[k]
           failing == {m \in 1..Len(answerRow) : ~table[answerRow[m].n].ok}
           firstBad == IF failing = {} THEN 0
                       ELSE CHOOSE m \in failing : \A l \in failing : m <= l
           reached == IF firstBad = 0 THEN Len(answerRow) ELSE firstBad - 1
       IN  With([st EXCEPT !.body = Append(@, EmptyParagraph)],
             LAMBDA opened :
               With(With([m \in 1..reached |-> Item(table[answerRow[m].n].url, answerRow[m])],
                         LAMBDA items : InsertImages(items, 1, opened, FALSE)),
                 LAMBDA filled :
                   IF ~filled.ok THEN [filled EXCEPT !.err = "InsertImage"]
                   ELSE IF firstBad # 0
                   THEN [filled EXCEPT !.ok = FALSE, !.err = table[answerRow[firstBad].n].err]
                   ELSE With([filled EXCEPT !.body = Append(@, EmptyParagraph)],
                             LAMBDA next : SolutionRows(k + 1, rows, next, table))))

\* createAnswersSheet with every answer row put in the order of its values
createAnswersSheetSorted(st, r) ==
  LET headed == [st EXCEPT !.body = @ \o <<PageBreak, Heading(<<"Solution">>)>>]
      info == getAnswersSheetInfo(r)
      byValue(answerRow) ==
        With(sortByValue([j \in 1..Len(answerRow) |-> Item(<<>>, answerRow[j])]),
             LAMBDA sorted : [j \in 1..Len(sorted) |-> sorted[j].value])
  IN  IF ~info.ok THEN [headed EXCEPT !.ok = FALSE, !.err = info.err]
      ELSE With(getAnswers(info.sheetName, info.startCell),
             LAMBDA got :
               IF ~got.ok THEN [headed EXCEPT !.ok = FALSE, !.err = got.err]
               ELSE With(<<getImageFromCell(1, r), getImageFromCell(2, r), getImageFromCell(3, r),
                           getImageFromCell(4, r), getImageFromCell(5, r), getImageFromCell(6, r)>>,
                         LAMBDA table :
                           SolutionRows(1, [i \in 1..Len(got.val) |-> byValue(got.val[i])],
                                        headed, table)))

\* createAnswersSheet(body, row) of sudoku.js
createAnswersSheet(st, r) ==
  LET headed == [st EXCEPT !.body = @ \o <<PageBreak, Heading(<<"Solution">>)>>]
      info == getAnswersSheetInfo(r)
  IN  IF ~info.ok THEN [headed EXCEPT !.ok = FALSE, !.err = info.err]
      ELSE With(getAnswers(info.sheetName, info.startCell),
             LAMBDA got :
               IF ~got.ok THEN [headed EXCEPT !.ok = FALSE, !.err = got.err]
               ELSE With(<<getImageFromCell(1, r), getImageFromCell(2, r), getImageFromCell(3, r),
                           getImageFromCell(4, r), getImageFromCell(5, r), getImageFromCell(6, r)>>,
                         LAMBDA table : SolutionRows(1, got.val, headed, table)))

\* the cells of the template copy that receive 'X': the loops of createSudokuGrid
\* read the answers sheet from its first cell
GridMarks(gridSize) ==
  {<<i + 2, j + 2>> : <<i, j>> \in
     {c \in (0..(gridSize - 1)) \X (0..(gridSize - 1)) :
        /\ WeightAt(c[1] + 1, c[2] + 1) = "bold"
        /\ IsInteger(ValueAt(c[1] + 1, c[2] + 1))
        /\ NumGE(ValueAt(c[1] + 1, c[2] + 1), 1)
        /\ NumLE(ValueAt(c[1] + 1, c[2] + 1), gridSize)}}

\* how many reads of a font weight threw, and were caught, in createSudokuGrid
GridUnread(gridSize) ==
  Cardinality({c \in (1..gridSize) \X (1..gridSize) : WeightAt(c[1], c[2]) = "error"})

\* the names of the sheets of the target spreadsheet
SheetNames(wb) == {wb.sheets[k].name : k \in 1..Len(wb.sheets)}

\* targetSpreadsheet.getSheetByName(name), for a name some sheet bears
SheetNamed(wb, name) ==
  LET named == {k \in 1..Len(wb.sheets) : wb.sheets[k].name = name}
  IN  wb.sheets[CHOOSE k \in named : \A l \in named : k <= l]

\* if (existingSheet) targetSpreadsheet.deleteSheet(existingSheet): the sheets
\* without the sheet that getSheetByName(shortname) finds
DeleteSheet(sheets, shortname) ==
  LET named == {k \in 1..Len(sheets) : sheets[k].name = shortname}
      found == CHOOSE k \in named : \A l \in named : k <= l
  IN  IF named = {} THEN sheets
      ELSE [k \in 1..(Len(sheets) - 1) |-> IF k < found THEN sheets[k] ELSE sheets[k + 1]]

\* a copy of the template that is added under the name shortname whether or
\* not the target holds a sheet of that name
CopyTemplateBeside(wb, shortname, longname, marks) ==
  [wb EXCEPT !.sheets =
     Append(@, [name |-> shortname, longname |-> longname, marks |-> marks])]

\* the target spreadsheet after the deletion of the sheet named shortname, if
\* there is one, templateSheet.copyTo(targetSpreadsheet) and setName(shortname);
\* longname and marks are what the rest of createSudokuGrid writes into the copy
CopyTemplate(wb, shortname, longname, marks) ==
  [wb EXCEPT !.sheets =
     Append(DeleteSheet(@, shortname),
            [name |-> shortname, longname |-> longname, marks |-> marks])]

\* createSudokuGrid(row) of sudoku.js: the workbook it leaves, the error it
\* throws, and the number of font-weight reads that threw and were caught
createSudokuGrid(r, wb) ==
  LET size == getGridSize(r)
      gridSize == size.val
      templateName == IF gridSize = GRID_SIZE_4 THEN "Template4" ELSE "Template6"
      shortname == sheet[r].A
      longname == sheet[r].B
      namedRange == IF gridSize = GRID_SIZE_4 THEN "Template4Name" ELSE "Template6Name"
      info == getAnswersSheetInfo(r)
      out(w, e, n) == [ok |-> e = "", err |-> e, workbook |-> w, caught |-> n]
  IN  IF ~size.ok THEN out(wb, size.err, 0)
      ELSE IF templateName \notin wb.templates THEN out(wb, "TemplateNotFound", 0)
      ELSE IF Falsy(shortname) \/ shortname.t # "string" THEN out(wb, "InvalidShortname", 0)
      ELSE IF Falsy(longname) \/ longname.t # "string" THEN out(wb, "InvalidLongname", 0)
      ELSE IF namedRange \notin wb.ranges
           THEN out(CopyTemplate(wb, shortname.s, <<>>, {}), "NamedRangeNotFound", 0)
      ELSE IF ~info.ok THEN out(CopyTemplate(wb, shortname.s, longname.s, {}), info.err, 0)
      ELSE IF info.sheetName # answers.name
           THEN out(CopyTemplate(wb, shortname.s, longname.s, {}), "SheetNotFound", 0)
      ELSE out(CopyTemplate(wb, shortname.s, longname.s, GridMarks(gridSize)), "",
               GridUnread(gridSize))

\* validateSudokuArray(array) of sudoku.gs: GRID_SIZE is 6
validateSudokuArrayGS(arr) ==
  IF Len(arr) # GRID_SIZE_6 THEN "ArrayDimensions"
  ELSE IF \E i \in 1..Len(arr) : Len(arr[i]) # GRID_SIZE_6 THEN "RowDimensions"
  ELSE IF \E i \in 1..Len(arr) : \E j \in 1..Len(arr[i]) : ~CellAccepted(arr[i][j], GRID_SIZE_6)
       THEN "CellValues"
  ELSE ""

\* the loops of outputRows, outputColumns and outputGroups of sudoku.gs from
\* slice k on: the non-null cells of a slice are resolved and their images
\* appended in the order of the visit; table holds the resolution of each
\* number. outputGroups resolves the whole slice (getNonNullValues) before it
\* appends the first image, the other two resolve cell by cell.
RECURSIVE RenderSlicesGS(_, _, _, _, _, _, _)
RenderSlicesGS(cells, k, arr, st, prefix, table, whole) ==
  IF k > Len(cells) THEN st
  ELSE LET given == SelectSeq(cells[k], LAMBDA c : At(arr, c).t # "null")
           failing == {m \in 1..Len(given) : ~table[At(arr, given[m]).n].ok}
           firstBad == IF failing = {} THEN 0
                       ELSE CHOOSE m \in failing : \A l \in failing : m <= l
           reached == IF firstBad = 0 THEN Len(given)
                      ELSE IF whole THEN 0 ELSE firstBad - 1
       IN  With([st EXCEPT !.body = Append(@, Paragraph(<<prefix>>, k, <<>>))],
             LAMBDA opened :
               With(With([m \in 1..reached |->
                            Item(table[At(arr, given[m]).n].url, At(arr, given[m]))],
                         LAMBDA items : InsertImages(items, 1, opened, TRUE)),
                 LAMBDA filled :
                   IF ~filled.ok THEN [filled EXCEPT !.err = "InsertImage"]
                   ELSE IF firstBad # 0
                   THEN [filled EXCEPT !.ok = FALSE,
                                       !.err = table[At(arr, given[firstBad]).n].err]
                   ELSE With([filled EXCEPT !.body = Append(@, EmptyParagraph)],
                             LAMBDA next : RenderSlicesGS(cells, k + 1, arr, next, prefix, table, whole))))

\* the common course of outputRows, outputColumns and outputGroups of sudoku.gs;
\* breakAfter tells whether the operation ends with a page break, which
\* outputRows and outputColumns do and outputGroups does not
outputSlicesGS(sectionType, prefix, cells, arr, st, row, breakAfter) ==
  LET invalid == validateSudokuArrayGS(arr)
  IN  IF invalid # "" THEN [st EXCEPT !.ok = FALSE, !.err = invalid]
      ELSE With(<<getImageFromCellGS(1, row), getImageFromCellGS(2, row),
                  getImageFromCellGS(3, row), getImageFromCellGS(4, row),
                  getImageFromCellGS(5, row), getImageFromCellGS(6, row)>>,
             LAMBDA table :
               With(RenderSlicesGS(cells, 1, arr,
                      [st EXCEPT !.body = Append(@, Heading(<<sectionType, MUST_NOT_CONTAIN>>))],
                      prefix, table, ~breakAfter),
                 LAMBDA done :
                   IF done.ok /\ breakAfter THEN [done EXCEPT !.body = Append(@, PageBreak)]
                   ELSE done))

outputRowsGS(arr, st, row) ==
  outputSlicesGS("ROWS", "ROW", RowCells(arr), arr, st, row, TRUE)

outputColumnsGS(arr, st, row) ==
  outputSlicesGS("COLUMNS", "COLUMN", ColumnCells(arr, GRID_SIZE_6), arr, st, row, TRUE)

outputGroupsGS(arr, st, row) ==
  outputSlicesGS("GROUPS", "GROUP", GroupCells(GROUP_BOUNDARIES_6), arr, st, row, FALSE)

---------------------------------------------------------------------------
(* Inputs *)

\* the longest tail (what follows the opening parenthesis) of an enumerated formula
MaxTail == 4

\* the row of the "Sudokus" sheet the operations are applied to
TheRow == 2

Q == "\""
TailChars == {Q, "!", ")", "u"}

\* the sequences over S of length at most n
SeqsUpTo(S, n) == UNION {[1..k -> S] : k \in 0..n}

FormulaHeads ==
  { <<"=","i","m","a","g","e","(">>, <<"=","I","M","A","G","E","(">>,
    <<"=","I","m","a","g","e","(">>, <<"=","u","(">> }

\* formulas in which the pattern matches only after a first failed attempt
SpecialFormulas ==
  { <<"=","i","m","a","g","e","(",")","=","i","m","a","g","e","(","u",")">> }

Formulas ==
  {<<>>} \cup SpecialFormulas
         \cup {h \o tl : h \in FormulaHeads, tl \in SeqsUpTo(TailChars, MaxTail)}

\* =image("u<k>"): the image formula of number k with a literal locator
LiteralFormula(k) ==
  <<"=","i","m","a","g","e","(",Q,"u">> \o <<CHOOSE c \in {"1","2","3","4","5","6"} :
       c = (<<"1","2","3","4","5","6">>)[k]>> \o <<Q,")">>

DefaultCell(k) == Cell(ImageV(<<>>), LiteralFormula(k))

\* "S6!A1" and "S4!A1": the answers of a 6x6 and of a 4x4 puzzle
Ref6 == StrV(<<"S","6","!","A","1">>)
Ref4 == StrV(<<"S","4","!","A","1">>)

\* six image cells for a 6x6 puzzle, four (and two empty cells) for a 4x4 puzzle
DefaultImages(N) ==
  [k \in 1..6 |-> IF k <= N THEN DefaultCell(k) ELSE Cell(EmptyV, <<>>)]

Row(a, b, c, d, img) == [A |-> a, B |-> b, C |-> c, D |-> d, img |-> img]

DefaultRow(N) ==
  Row(StrV(<<"p">>), StrV(<<"P">>), IF N = 6 THEN Ref6 ELSE Ref4, BoolV(TRUE),
      DefaultImages(N))

\* what a referenced cell may hold
RefValues == {StrV(<<"u">>), StrV(<<" ">>), EmptyV, NumV(5)}
\* the references that name a cell: getRange throws for any other
RefNames == {<<"u","!","u">>}

NoAnswers == [name |-> <<>>, values |-> <<>>, weight |-> <<>>]
EmptyMap == [u \in {} |-> 0]

\* the template sheets and named ranges present, and a target spreadsheet
\* without sheets
Workbook(templates, ranges) ==
  [templates |-> templates, ranges |-> ranges, sheets |-> <<>>]

FullWorkbook ==
  Workbook({"Template4", "Template6"}, {"Template4Name", "Template6Name"})

\* the driver before main has run
DriverIdle ==
  /\ curRow = TheRow
  /\ docs = <<>>
  /\ workbook = FullWorkbook
  /\ log = <<>>

\* everything but the data source, before anything has run
Idle ==
  /\ DriverIdle
  /\ answers = NoAnswers
  /\ array = <<>>
  /\ sections = <<>>
  /\ body = <<>>
  /\ imageCache = EmptyMap
  /\ fetched = EmptyMap
  /\ broken = {}
  /\ pc = "start"
  /\ ret = [op |-> "none"]

---------------------------------------------------------------------------
(* Address resolution: getImageFromCell applied to one row *)

\* the column of the scan window that holds the formula under test
TestNum == 2

\* the values of column C tried with the default images
ColumnCValues ==
  { Ref6, Ref4, EmptyV, NumV(6), StrV(<<"S","6">>), StrV(<<"!","A","1">>),
    StrV(<<"S","6","!">>), StrV(<<"S","!","A","!","6">>) }

InitResolve ==
  /\ \/ \E f \in Formulas \ {<<>>} :
          sheet = (TheRow :> [DefaultRow(6) EXCEPT !.img[TestNum] = Cell(ImageV(<<>>), f)])
     \/ \E v \in {ImageV(<<"u">>), EmptyV, StrV(<<"u">>)} :
          sheet = (TheRow :> [DefaultRow(6) EXCEPT !.img[TestNum] = Cell(v, <<>>)])
     \/ \E c \in ColumnCValues :
          sheet = (TheRow :> [DefaultRow(6) EXCEPT !.C = c])
  /\ \E rv \in RefValues : refs = [r \in RefNames |-> rv]
  /\ Idle

\* one call getImageFromCell(num, TheRow)
GetImageFromCell ==
  /\ pc = "start"
  /\ \E num \in 0..(GRID_SIZE_6 + 1) :
       ret' = [op |-> "getImageFromCell", num |-> num, res |-> getImageFromCell(num, TheRow)]
  /\ pc' = "done"
  /\ UNCHANGED <<Driver, sheet, refs, answers, broken, array, sections, body, imageCache, fetched>>

NextResolve == GetImageFromCell

SpecResolve == InitResolve /\ [][NextResolve]_vars

---------------------------------------------------------------------------
(* Cross-sheet references: getImageFromCell of sudoku.js and of sudoku.gs     *)
(* applied to a cell whose formula names a cell of another sheet             *)

\* what the referenced cell may hold
ReferencedValues ==
  RefValues \cup {StrV(<<" ", "u">>), StrV(<<" ", " ">>), NumV(0), BoolV(TRUE), BoolV(FALSE)}

\* =image(u!u) in two spellings, and =image(u!) whose reference names no cell
ReferenceFormulas ==
  { IMAGE_PREFIX \o <<"u", "!", "u", ")">>,
    <<"=","I","M","A","G","E","(">> \o <<"u", "!", "u", ")">>,
    IMAGE_PREFIX \o <<"u", "!", ")">> }

InitReference ==
  /\ \E f \in ReferenceFormulas :
       sheet = (TheRow :> [DefaultRow(6) EXCEPT !.img[TestNum] = Cell(ImageV(<<>>), f)])
  /\ \E rv \in ReferencedValues : refs = [r \in RefNames |-> rv]
  /\ Idle

\* one call getImageFromCell(num) of sudoku.gs
GetImageFromCellGS ==
  /\ pc = "start"
  /\ \E num \in 0..(GRID_SIZE_6 + 1) :
       ret' = [op |-> "getImageFromCellGS", num |-> num, res |-> getImageFromCellGS(num, TheRow)]
  /\ pc' = "done"
  /\ UNCHANGED <<Driver, sheet, refs, answers, broken, array, sections, body, imageCache, fetched>>

NextReference == GetImageFromCell \/ GetImageFromCellGS

SpecReference == InitReference /\ [][NextReference]_vars

---------------------------------------------------------------------------
(* The cell an error of getImageFromCell names *)

\* sheet.getRange(row, num + 4) of sudoku.js: the column of the cell read
ColumnRead(num) == num + IMAGE_COLUMN_SHIFT

\* sheet.getRange(1, num) of sudoku.gs: the column of the cell read
ColumnReadGS(num) == num

\* formulas that are no image formula, and image formulas that are not closed
AddressFormulas ==
  { <<"=", "u">>, IMAGE_PREFIX \o <<"u">>, <<"=","I","M","A","G","E","(">> \o <<"u">>, IMAGE_PREFIX }

InitAddress ==
  /\ \/ sheet = (TheRow :> DefaultRow(6))
     \/ \E num \in 1..GRID_SIZE_6 : \E f \in AddressFormulas :
          sheet = (TheRow :> [DefaultRow(6) EXCEPT !.img[num] = Cell(ImageV(<<>>), f)])
  /\ refs = [r \in RefNames |-> StrV(<<"u">>)]
  /\ Idle

NextAddress == GetImageFromCell \/ GetImageFromCellGS

SpecAddress == InitAddress /\ [][NextAddress]_vars

---------------------------------------------------------------------------
(* One row of the batch of sudoku.js: the steps of main for the row *)

\* the largest number of specified (bold) cells of an enumerated answers sheet
MaxBold == 1

Nums(m) == [i \in 1..Len(m) |-> [j \in 1..Len(m[i]) |-> NumV(m[i][j])]]

\* solved grids, and a grid that repeats values within its rows
Solved4 == Nums(<< <<1,3,4,2>>, <<4,2,1,3>>, <<2,4,3,1>>, <<3,1,2,4>> >>)
Ties4 == Nums(<< <<2,1,2,1>>, <<3,3,1,1>>, <<4,4,4,4>>, <<4,3,2,1>> >>)
Solved6 ==
  Nums(<< <<1,2,3,4,5,6>>, <<4,5,6,1,2,3>>, <<2,3,1,5,6,4>>,
          <<5,6,4,2,3,1>>, <<3,1,2,6,4,5>>, <<6,4,5,3,1,2>> >>)

\* a 6x6 window that holds values of 1..4 only
Low6 == Nums([i \in 1..6 |-> [j \in 1..6 |-> ((i + j) % 4) + 1]])

Cells(N) == (1..N) \X (1..N)
Diagonal(N) == {<<i, i>> : i \in 1..N}

RECURSIVE SubsetsUpTo(_, _)
SubsetsUpTo(S, k) ==
  IF k = 0 THEN {{}}
  ELSE LET smaller == SubsetsUpTo(S, k - 1)
       IN  smaller \cup {s \cup {x} : s \in smaller, x \in S}

Masks(N) == SubsetsUpTo(Cells(N), MaxBold) \cup {Diagonal(N)}

Weights(N, mask) ==
  [i \in 1..N |-> [j \in 1..N |-> IF <<i, j>> \in mask THEN "bold" ELSE "normal"]]

SheetName(N) == IF N = 6 THEN <<"S","6">> ELSE <<"S","4">>

AnswersSheet(N, values, mask) ==
  [name |-> SheetName(N), values |-> values, weight |-> Weights(N, mask)]

\* the weights with the cells of unread replaced by a read that throws
Unreadable(weights, unread) ==
  [i \in DOMAIN weights |->
     [j \in DOMAIN weights[i] |-> IF <<i, j>> \in unread THEN "error" ELSE weights[i][j]]]

\* a grid some of whose cells hold no integer of the range 1..4
Flawed4 ==
  [Solved4 EXCEPT ![1][1] = EmptyV, ![1][2] = NumV(5), ![2][1] = HalfV(2),
                  ![2][2] = NumV(0), ![3][3] = StrV(<<"u">>), ![3][4] = StrV(<<"3">>)]

\* the solved grid placed at B2, below and right of a row and a column of ones
Offset4 ==
  [i \in 1..5 |-> [j \in 1..5 |-> IF i = 1 \/ j = 1 THEN NumV(1) ELSE Solved4[i - 1][j - 1]]]

\* what column D may hold
ColumnDValues == {BoolV(TRUE), BoolV(FALSE), EmptyV, StrV(<<"u">>), NumV(0), NumV(1)}

UrlOf(k) == sliceInner(SubSeq(LiteralFormula(k), 8, Len(LiteralFormula(k)) - 1))

\* image cells that differ from the default ones
ImageVariants(N) ==
  { DefaultImages(N),
    \* =image(""): the locator of number 1 is empty
    [DefaultImages(N) EXCEPT ![1] = Cell(ImageV(<<>>), IMAGE_PREFIX \o <<Q, Q, ")">>)],
    \* =image(u!u): the locator of number 2 is in a referenced cell
    [DefaultImages(N) EXCEPT ![2] = Cell(ImageV(<<>>), IMAGE_PREFIX \o <<"u", "!", "u", ")">>)],
    \* numbers 1 and 2 share a locator
    [DefaultImages(N) EXCEPT ![2] = DefaultCell(1)],
    \* the image of number 3 is placed in the cell, without a formula
    [DefaultImages(N) EXCEPT ![3] = Cell(ImageV(<<"v">>), <<>>)],
    \* the formula of number 4 is not closed
    [DefaultImages(N) EXCEPT ![4] = Cell(ImageV(<<>>), IMAGE_PREFIX \o <<"u">>)] }

BrokenSets == { {}, {UrlOf(1)}, {<<>>} }

RowConfigs ==
  {[N |-> N, values |-> v, mask |-> m, D |-> d, img |-> DefaultImages(N),
    refv |-> StrV(<<"u">>), broken |-> {}, start |-> <<"A", "1">>, unread |-> {}] :
      N \in {4}, v \in {Solved4, Ties4}, m \in Masks(4), d \in {BoolV(TRUE), BoolV(FALSE)}}
  \cup
  {[N |-> N, values |-> v, mask |-> m, D |-> d, img |-> DefaultImages(N),
    refv |-> StrV(<<"u">>), broken |-> {}, start |-> <<"A", "1">>, unread |-> {}] :
      N \in {6}, v \in {Solved6}, m \in Masks(6), d \in {BoolV(TRUE), BoolV(FALSE)}}
  \cup
  {[N |-> 4, values |-> Solved4, mask |-> m, D |-> d, img |-> img,
    refv |-> rv, broken |-> b, start |-> <<"A", "1">>, unread |-> {}] :
      m \in {Diagonal(4), {}}, d \in {BoolV(TRUE), BoolV(FALSE)}, img \in ImageVariants(4),
      rv \in {StrV(<<"u">>), EmptyV}, b \in BrokenSets}
  \cup
  {[N |-> 6, values |-> Solved6, mask |-> m, D |-> d, img |-> img,
    refv |-> rv, broken |-> b, start |-> <<"A", "1">>, unread |-> {}] :
      m \in {Diagonal(6), {}}, d \in {BoolV(TRUE), BoolV(FALSE)}, img \in ImageVariants(6),
      rv \in {StrV(<<"u">>), EmptyV}, b \in BrokenSets}
  \cup
  \* cells that hold no integer of the range, font weights that cannot be read,
  \* and values of column D that are not booleans
  {[N |-> 4, values |-> Flawed4, mask |-> m, D |-> d, img |-> DefaultImages(4),
    refv |-> StrV(<<"u">>), broken |-> {}, start |-> <<"A", "1">>, unread |-> u] :
      m \in {Diagonal(4), {}}, d \in ColumnDValues,
      u \in {{}, {<<1, 3>>, <<4, 4>>}}}
  \cup
  \* a grid that starts at B2
  {[N |-> 4, values |-> Offset4, mask |-> m, D |-> d, img |-> DefaultImages(4),
    refv |-> StrV(<<"u">>), broken |-> {}, start |-> <<"B", "2">>, unread |-> u] :
      m \in {{<<1, 1>>, <<2, 2>>, <<3, 4>>}, {}}, d \in {BoolV(TRUE), BoolV(FALSE)},
      u \in {{}, {<<2, 2>>}}}
  \cup
  \* a 6x6 puzzle whose answers sheet has no '6' in its name, and a 4x4 puzzle
  \* whose answers sheet has one
  {[N |-> N, values |-> IF N = 6 THEN Solved6 ELSE Solved4,
    mask |-> IF diagonal THEN Diagonal(N) ELSE {}, D |-> d,
    img |-> DefaultImages(N), refv |-> StrV(<<"u">>), broken |-> {},
    start |-> <<"A", "1">>, unread |-> {}, named |-> 10 - N] :
      N \in {4, 6}, diagonal \in BOOLEAN, d \in {BoolV(TRUE), BoolV(FALSE)}}

\* the size the name of the answers sheet of a configuration suggests
NamedSize(cfg) == IF "named" \in DOMAIN cfg THEN cfg.named ELSE cfg.N

InitRow ==
  \E cfg \in RowConfigs :
    /\ sheet = (TheRow :> [DefaultRow(cfg.N) EXCEPT !.C = StrV(SheetName(NamedSize(cfg)) \o <<"!">> \o cfg.start),
                                                   !.D = cfg.D, !.img = cfg.img])
    /\ refs = [r \in RefNames |-> cfg.refv]
    /\ answers = [AnswersSheet(Len(cfg.values), cfg.values, cfg.mask) EXCEPT
                    !.name = SheetName(NamedSize(cfg)), !.weight = Unreadable(@, cfg.unread)]
    /\ broken = cfg.broken
    /\ array = <<>>
    /\ sections = <<>>
    /\ body = <<>>
    /\ imageCache = EmptyMap
    /\ fetched = EmptyMap
    /\ DriverIdle
    /\ pc = "start"
    /\ ret = [op |-> "none", err |-> ""]

Source == <<sheet, refs, answers, broken>>

\* how many reads of a font weight throw in the loops of getSudokuPuzzle(r)
PuzzleUnread(r) ==
  LET startCell == getAnswersSheetInfo(r).startCell
      startCol == LetterNumber(startCell[FirstLetterAt(startCell)])
      startRow == DigitsValue(startCell, FirstDigitAt(startCell), 0)
      gridSize == getGridSize(r).val
  IN  Cardinality({c \in (0..(gridSize - 1)) \X (0..(gridSize - 1)) :
                     WeightAt(startRow + c[1], startCol + c[2]) = "error"})

\* console.log(`Could not get font weight ...`), n times
Caught(n) == [k \in 1..n |-> [level |-> "log", msg |-> "FontWeight"]]

\* createDocument(`Mint Hulzo Coin - ${shortname}`): a new, empty document
CreateDocument ==
  /\ pc = "start"
  /\ body' = <<>>
  /\ docs' = Append(docs, <<"Mint Hulzo Coin - ", sheet[curRow].A.s>>)
  /\ pc' = "doc"
  /\ ret' = [op |-> "createDocument", err |-> ""]
  /\ UNCHANGED <<Source, array, sections, imageCache, fetched, curRow, workbook, log>>

\* const puzzle = getSudokuPuzzle(row)
GetSudokuPuzzle ==
  /\ pc = "doc"
  /\ \E got \in {getSudokuPuzzle(curRow)} :
         /\ array' = got.val
         /\ pc' = IF got.ok THEN "puzzle" ELSE "failed"
         /\ ret' = [op |-> "getSudokuPuzzle", err |-> got.err]
         /\ log' = IF got.ok THEN log \o Caught(PuzzleUnread(curRow)) ELSE log
  /\ UNCHANGED <<Source, sections, body, imageCache, fetched, curRow, docs, workbook>>

\* a slicing step whose sort acts on the rows of the grid itself
SlicingSortingGrid(from, to, op, out) ==
  /\ pc = from
  /\ sections' = out.sections
  /\ body' = out.body
  /\ imageCache' = out.cache
  /\ fetched' = out.fetched
  /\ pc' = IF out.err = "" THEN to ELSE "failed"
  /\ ret' = [op |-> op, err |-> out.err]
  /\ array' = [i \in 1..Len(array) |->
                 With(sortByValue([j \in 1..Len(array[i]) |-> Item(<<>>, array[i][j])]),
                      LAMBDA sorted : [j \in 1..Len(sorted) |-> sorted[j].value])]
  /\ UNCHANGED <<Source, Driver>>

\* a slicing step of main: from position from to position to, or to "failed"
Slicing(from, to, op, out) ==
  /\ pc = from
  /\ sections' = out.sections
  /\ body' = out.body
  /\ imageCache' = out.cache
  /\ fetched' = out.fetched
  /\ pc' = IF out.err = "" THEN to ELSE "failed"
  /\ ret' = [op |-> op, err |-> out.err]
  /\ UNCHANGED <<Source, array, Driver>>

OutputRows ==
  /\ pc = "puzzle"
  /\ \E out \in {outputRows(array, Doc(body, imageCache, fetched), curRow)} :
       Slicing("puzzle", "rows", "outputRows", out)

OutputColumns ==
  /\ pc = "rows"
  /\ \E out \in {outputColumns(array, Doc(body, imageCache, fetched), curRow)} :
       Slicing("rows", "columns", "outputColumns", out)

OutputGroups ==
  /\ pc = "columns"
  /\ \E out \in {outputGroups(array, Doc(body, imageCache, fetched), curRow)} :
       Slicing("columns", "groups", "outputGroups", out)

\* a step of main that writes a page of the document
Page(from, to, op, done) ==
  /\ pc = from
  /\ body' = done.body
  /\ imageCache' = done.cache
  /\ fetched' = done.fetched
  /\ pc' = IF done.ok THEN to ELSE "failed"
  /\ ret' = [op |-> op, err |-> done.err]
  /\ UNCHANGED <<Source, array, sections, Driver>>

\* createReferencePage(body, row)
CreateReferencePage ==
  /\ pc = "groups"
  /\ \E done \in {createReferencePage(Doc(body, imageCache, fetched), curRow)} :
       Page("groups", "reference", "createReferencePage", done)

\* createAnswersSheet(body, row)
CreateAnswersSheet ==
  /\ pc = "reference"
  /\ \E done \in {createAnswersSheet(Doc(body, imageCache, fetched), curRow)} :
       Page("reference", "solution", "createAnswersSheet", done)

\* createSudokuGrid(row); its own catch logs the error before it throws it again
CreateSudokuGrid ==
  /\ pc = "solution"
  /\ \E done \in {createSudokuGrid(curRow, workbook)} :
         /\ workbook' = done.workbook
         /\ log' = log \o Caught(done.caught)
                       \o (IF done.ok THEN <<>> ELSE <<[level |-> "error", msg |-> done.err]>>)
         /\ pc' = IF done.ok THEN "grid" ELSE "failed"
         /\ ret' = [op |-> "createSudokuGrid", err |-> done.err]
  /\ UNCHANGED <<Source, array, sections, body, imageCache, fetched, curRow, docs>>

NextRow ==
  \/ CreateDocument
  \/ GetSudokuPuzzle
  \/ OutputRows
  \/ OutputColumns
  \/ OutputGroups
  \/ CreateReferencePage
  \/ CreateAnswersSheet
  \/ CreateSudokuGrid

SpecRow == InitRow /\ [][NextRow]_vars

---------------------------------------------------------------------------
(* The batch driver main of sudoku.js over the rows 2..LastRow *)

\* sheet.getLastRow()
LastRow == 4

DigitChar(n) == <<"0", "1", "2", "3", "4", "5", "6", "7", "8", "9">>[n + 1]

\* the shortname of row r, and the title of its document
NameOf(r) == <<"p", DigitChar(r)>>
TitleOf(r) == <<"Mint Hulzo Coin - ", NameOf(r)>>

\* the rows tried: a complete row of a 4x4 puzzle, rows without a shortname,
\* and rows one of whose steps fails
RowKinds ==
  {"named", "empty", "blank", "number", "wrongSheet", "badFormula", "noLongname", "fromB2"}

RowOfKind(kind, r) ==
  LET named == [DefaultRow(4) EXCEPT !.A = StrV(NameOf(r))]
  IN  CASE kind = "named" -> named
        [] kind = "empty" -> [named EXCEPT !.A = EmptyV]
        [] kind = "blank" -> [named EXCEPT !.A = StrV(<<" ">>)]
        [] kind = "number" -> [named EXCEPT !.A = NumV(7)]
        [] kind = "wrongSheet" -> [named EXCEPT !.C = Ref6]
        [] kind = "badFormula" ->
             [named EXCEPT !.img[4] = Cell(ImageV(<<>>), IMAGE_PREFIX \o <<"u">>)]
        [] kind = "noLongname" -> [named EXCEPT !.B = EmptyV]
        [] kind = "fromB2" -> [named EXCEPT !.C = StrV(<<"S", "4", "!", "B", "2">>)]
        [] kind = "sameName" -> [named EXCEPT !.A = StrV(NameOf(TheRow))]
        [] kind = "six" -> [DefaultRow(6) EXCEPT !.A = StrV(NameOf(r))]
        [] kind = "sixSameName" -> [DefaultRow(6) EXCEPT !.A = StrV(NameOf(TheRow))]

BatchConfigs ==
  {[kinds |-> k, unread |-> {}, broken |-> {}, workbook |-> FullWorkbook] :
      k \in [TheRow..LastRow -> {"named", "empty", "wrongSheet"}]}
  \cup
  {[kinds |-> [r \in TheRow..LastRow |-> IF r = TheRow + 1 THEN k ELSE "named"],
    unread |-> {}, broken |-> {}, workbook |-> FullWorkbook] : k \in RowKinds}
  \cup
  {[kinds |-> [r \in TheRow..LastRow |-> "named"], unread |-> u, broken |-> b, workbook |-> w] :
      u \in {{}, {<<1, 1>>}}, b \in {{}, {UrlOf(1)}},
      w \in {FullWorkbook,
              Workbook({"Template6"}, {"Template4Name", "Template6Name"}),
              Workbook({"Template4", "Template6"}, {})}}
  \cup
  \* rows of four and of six images that share the answers sheet S6, whose
  \* 6x6 window holds values of 1..4 only; row 3 may bear the name of row 2
  {[kinds |-> [r \in TheRow..LastRow |-> IF r = TheRow + 1 THEN k ELSE "wrongSheet"],
    unread |-> {}, broken |-> {}, workbook |-> w, answers |-> Low6] :
      k \in {"six", "sixSameName", "wrongSheet"},
      w \in {FullWorkbook, Workbook({"Template4", "Template6"}, {"Template4Name"})}}

\* the values of the answers sheet of a batch
BatchAnswers(cfg) ==
  IF "answers" \in DOMAIN cfg THEN AnswersSheet(6, cfg.answers, Diagonal(6))
  ELSE AnswersSheet(4, Solved4, Diagonal(4))

InitMain ==
  \E cfg \in BatchConfigs :
    /\ sheet = [r \in TheRow..LastRow |-> RowOfKind(cfg.kinds[r], r)]
    /\ refs = [r \in RefNames |-> StrV(<<"u">>)]
    /\ answers = [BatchAnswers(cfg) EXCEPT !.weight = Unreadable(@, cfg.unread)]
    /\ broken = cfg.broken
    /\ array = <<>>
    /\ sections = <<>>
    /\ body = <<>>
    /\ imageCache = EmptyMap
    /\ fetched = EmptyMap
    /\ curRow = TheRow
    /\ docs = <<>>
    /\ workbook = cfg.workbook
    /\ log = <<>>
    /\ pc = "test"
    /\ ret = [op |-> "none", err |-> ""]

\* !shortname || typeof shortname !== 'string' || shortname.trim() === ''
NoShortname(r) ==
  Falsy(sheet[r].A) \/ sheet[r].A.t # "string" \/ TrimIsEmpty(sheet[r].A.s)

\* a loop test that passes over a row without a shortname
TestRowSkipping ==
  /\ pc = "test"
  /\ IF curRow > LastRow
     THEN pc' = "returned" /\ UNCHANGED <<curRow, log>>
     ELSE IF NoShortname(curRow)
     THEN /\ pc' = "test"
          /\ curRow' = curRow + 1
          /\ log' = Append(log, [level |-> "log", msg |-> "Skipping"])
     ELSE pc' = "start" /\ UNCHANGED <<curRow, log>>
  /\ UNCHANGED <<Source, array, sections, body, imageCache, fetched, ret, docs, workbook>>

\* row <= lastRow, and the check of the shortname: the loop ends at the first
\* row without one
TestRow ==
  /\ pc = "test"
  /\ IF curRow > LastRow
     THEN pc' = "returned" /\ UNCHANGED log
     ELSE IF NoShortname(curRow)
     THEN /\ pc' = "returned"
          /\ log' = Append(log, [level |-> "log", msg |-> "Stopping"])
     ELSE pc' = "start" /\ UNCHANGED log
  /\ UNCHANGED <<Source, array, sections, body, imageCache, fetched, ret, curRow, docs, workbook>>

\* a row++ that does not wait for createSudokuGrid
NextRowEarly ==
  /\ pc = "solution"
  /\ curRow' = curRow + 1
  /\ pc' = "test"
  /\ UNCHANGED <<Source, array, sections, body, imageCache, fetched, ret, docs, workbook, log>>

\* row++, after the last step of the row
NextRowOfBatch ==
  /\ pc = "grid"
  /\ curRow' = curRow + 1
  /\ pc' = "test"
  /\ UNCHANGED <<Source, array, sections, body, imageCache, fetched, ret, docs, workbook, log>>

\* a catch that logs the error and goes on with the next row
CatchAndContinue ==
  /\ pc = "failed"
  /\ log' = Append(log, [level |-> "error", msg |-> ret.err])
  /\ curRow' = curRow + 1
  /\ pc' = "test"
  /\ UNCHANGED <<Source, array, sections, body, imageCache, fetched, ret, docs, workbook>>

\* a catch that discards the document of the row that failed
CatchAndDiscard ==
  /\ pc = "failed"
  /\ log' = Append(log, [level |-> "error", msg |-> ret.err])
  /\ pc' = "raised"
  /\ docs' = SubSeq(docs, 1, Len(docs) - 1)
  /\ body' = <<>>
  /\ UNCHANGED <<Source, array, sections, imageCache, fetched, ret, curRow, workbook>>

\* catch (error) { console.error(...); throw error; }
Catch ==
  /\ pc = "failed"
  /\ log' = Append(log, [level |-> "error", msg |-> ret.err])
  /\ pc' = "raised"
  /\ UNCHANGED <<Source, array, sections, body, imageCache, fetched, ret, curRow, docs, workbook>>

NextMain ==
  \/ TestRow
  \/ CreateDocument
  \/ GetSudokuPuzzle
  \/ OutputRows
  \/ OutputColumns
  \/ OutputGroups
  \/ CreateReferencePage
  \/ CreateAnswersSheet
  \/ CreateSudokuGrid
  \/ NextRowOfBatch
  \/ Catch

SpecMain == InitMain /\ [][NextMain]_vars

---------------------------------------------------------------------------
(* Repeated calls of createSudokuGrid on the rows 2 and 3 *)

\* the largest number of calls in a run
MaxRuns == 3

\* what row 3 is: a row of its own name, a row that bears the name of row 2,
\* rows without a shortname or a longname, a row whose answers sheet does not
\* exist, and a row whose grid starts at B2
GridRowKinds == {"named", "sameName", "empty", "noLongname", "wrongSheet", "fromB2"}

InitGrid ==
  /\ \E k \in GridRowKinds :
       sheet = [r \in TheRow..(TheRow + 1) |->
                  IF r = TheRow THEN RowOfKind("named", r) ELSE RowOfKind(k, r)]
  /\ \E w \in {FullWorkbook,
                Workbook({"Template4", "Template6"}, {}),
                Workbook({"Template6"}, {"Template4Name", "Template6Name"})} : workbook = w
  /\ refs = [r \in RefNames |-> StrV(<<"u">>)]
  /\ answers = AnswersSheet(4, Solved4, Diagonal(4))
  /\ broken = {}
  /\ array = <<>>
  /\ sections = <<>>
  /\ body = <<>>
  /\ imageCache = EmptyMap
  /\ fetched = EmptyMap
  /\ curRow = TheRow
  /\ docs = <<>>
  /\ log = <<>>
  /\ pc = "start"
  /\ ret = [op |-> "none", err |-> "", run |-> 0]

\* one call createSudokuGrid(row), on either row; ret.run counts the calls
CallCreateSudokuGrid ==
  /\ ret.run < MaxRuns
  /\ \E r \in TheRow..(TheRow + 1) :
       \E done \in {createSudokuGrid(r, workbook)} :
         /\ curRow' = r
         /\ workbook' = done.workbook
         /\ log' = log \o Caught(done.caught)
                       \o (IF done.ok THEN <<>> ELSE <<[level |-> "error", msg |-> done.err]>>)
         /\ ret' = [op |-> "createSudokuGrid", err |-> done.err, run |-> ret.run + 1]
  /\ UNCHANGED <<Source, array, sections, body, imageCache, fetched, docs, pc>>

NextGrid == CallCreateSudokuGrid

SpecGrid == InitGrid /\ [][NextGrid]_vars

---------------------------------------------------------------------------
(* The validator applied to an array *)

AllNull(N) == [i \in 1..N |-> [j \in 1..N |-> NullV]]

\* the cells tried in place of a cell of a valid grid
TriedCells(N) ==
  { NullV, NumV(0), NumV(1), NumV(N), NumV(N + 1), NumV(0 - 1),
    HalfV(0), HalfV(2), HalfV(N) }

\* a valid grid with one cell replaced, one row shortened or lengthened, or a
\* row dropped or added; and both at once
TriedArrays(N) ==
  LET bases == IF N = 4 THEN {AllNull(4), Solved4} ELSE {AllNull(6), Solved6}
      oneCell == {[g EXCEPT ![i][j] = c] : g \in bases, i \in 1..N, j \in 1..N, c \in TriedCells(N)}
      oneRow == {[g EXCEPT ![i] = SubSeq(@, 1, N - 1)] : g \in bases, i \in 1..N}
                  \cup {[g EXCEPT ![i] = Append(@, NumV(1))] : g \in bases, i \in 1..N}
      rows(g) == {SubSeq(g, 1, N - 1), Append(g, g[1]), <<>>}
  IN  bases \cup oneCell \cup oneRow
        \cup UNION {rows(g) : g \in bases}
        \cup UNION {rows([g EXCEPT ![1][1] = HalfV(2)]) : g \in bases}
        \cup {[g EXCEPT ![1] = SubSeq(@, 1, N - 1), ![2][1] = NumV(0)] : g \in bases}

InitValidate ==
  /\ \E N \in {4, 6} :
       /\ sheet = (TheRow :> DefaultRow(N))
       /\ \E a \in TriedArrays(N) : array = a
  /\ refs = [r \in RefNames |-> StrV(<<"u">>)]
  /\ answers = NoAnswers
  /\ sections = <<>>
  /\ body = <<>>
  /\ imageCache = EmptyMap
  /\ fetched = EmptyMap
  /\ broken = {}
  /\ DriverIdle
  /\ pc = "start"
  /\ ret = [op |-> "none", err |-> ""]

\* one call validateSudokuArray(array, TheRow)
ValidateSudokuArray ==
  /\ pc = "start"
  /\ ret' = [op |-> "validateSudokuArray", err |-> validateSudokuArray(array, TheRow)]
  /\ pc' = "done"
  /\ UNCHANGED <<Driver, Source, array, sections, body, imageCache, fetched>>

NextValidate == ValidateSudokuArray

SpecValidate == InitValidate /\ [][NextValidate]_vars

---------------------------------------------------------------------------
(* The slicing operations of sudoku.js applied to an array, valid or not *)

\* four image cells; the same with the formula of number 1 not closed; and
\* three image cells only, for which getGridSize throws
SliceImages ==
  { DefaultImages(4),
    [DefaultImages(4) EXCEPT ![1] = Cell(ImageV(<<>>), IMAGE_PREFIX \o <<"u">>)],
    [DefaultImages(4) EXCEPT ![4] = Cell(EmptyV, <<>>)] }

InitSlice ==
  /\ \E img \in SliceImages : sheet = (TheRow :> [DefaultRow(4) EXCEPT !.img = img])
  /\ \E a \in TriedArrays(4) : array = a
  /\ refs = [r \in RefNames |-> StrV(<<"u">>)]
  /\ answers = NoAnswers
  /\ sections = <<>>
  /\ body \in {<<>>, <<PageBreak>>}
  /\ imageCache = EmptyMap
  /\ fetched = EmptyMap
  /\ broken = {}
  /\ DriverIdle
  /\ pc = "start"
  /\ ret = [op |-> "none", err |-> ""]

\* validateSudokuArray(array, row), called once and then once more
Revalidate ==
  /\ pc \in {"start", "done"}
  /\ ret' = [op |-> "validateSudokuArray", err |-> validateSudokuArray(array, TheRow)]
  /\ pc' = IF pc = "start" THEN "done" ELSE "again"
  /\ UNCHANGED <<Driver, Source, array, sections, body, imageCache, fetched>>

\* one slicing operation applied to the array
SliceOnce(op, out) ==
  /\ sections' = out.sections
  /\ body' = out.body
  /\ imageCache' = out.cache
  /\ fetched' = out.fetched
  /\ pc' = "sliced"
  /\ ret' = [op |-> op, err |-> out.err]
  /\ UNCHANGED <<Source, array, Driver>>

SliceRows ==
  /\ pc = "start"
  /\ \E out \in {outputRows(array, Doc(body, imageCache, fetched), TheRow)} :
       SliceOnce("outputRows", out)

SliceColumns ==
  /\ pc = "start"
  /\ \E out \in {outputColumns(array, Doc(body, imageCache, fetched), TheRow)} :
       SliceOnce("outputColumns", out)

SliceGroups ==
  /\ pc = "start"
  /\ \E out \in {outputGroups(array, Doc(body, imageCache, fetched), TheRow)} :
       SliceOnce("outputGroups", out)

NextSlice == Revalidate \/ SliceRows \/ SliceColumns \/ SliceGroups

SpecSlice == InitSlice /\ [][NextSlice]_vars

---------------------------------------------------------------------------
(* The single-puzzle revision sudoku.gs: the three sections of its document *)

\* the sets of given cells tried: none, one cell, the diagonal, all
GivenSets6 == {{c} : c \in Cells(6)} \cup {{}, Diagonal(6), Cells(6)}

\* the solved grid with the cells outside given set to null
PuzzleOf(given) ==
  [i \in 1..6 |-> [j \in 1..6 |-> IF <<i, j>> \in given THEN Solved6[i][j] ELSE NullV]]

InitSingle ==
  /\ sheet = (TheRow :> DefaultRow(6))
  /\ \E given \in GivenSets6 : array = PuzzleOf(given)
  /\ refs = [r \in RefNames |-> StrV(<<"u">>)]
  /\ answers = NoAnswers
  /\ sections = <<>>
  /\ body = <<>>
  /\ imageCache = EmptyMap
  /\ fetched = EmptyMap
  /\ broken \in {{}, {UrlOf(6)}}
  /\ DriverIdle
  /\ pc = "puzzle"
  /\ ret = [op |-> "none", err |-> ""]

\* a step of main of sudoku.gs that writes a section
SectionGS(to, op, done) ==
  /\ body' = done.body
  /\ imageCache' = done.cache
  /\ fetched' = done.fetched
  /\ pc' = IF done.ok THEN to ELSE "failed"
  /\ ret' = [op |-> op, err |-> done.err]
  /\ UNCHANGED <<Source, array, sections, Driver>>

OutputRowsGS ==
  /\ pc = "puzzle"
  /\ \E done \in {outputRowsGS(array, Doc(body, imageCache, fetched), TheRow)} :
       SectionGS("rows", "outputRowsGS", done)

OutputColumnsGS ==
  /\ pc = "rows"
  /\ \E done \in {outputColumnsGS(array, Doc(body, imageCache, fetched), TheRow)} :
       SectionGS("columns", "outputColumnsGS", done)

OutputGroupsGS ==
  /\ pc = "columns"
  /\ \E done \in {outputGroupsGS(array, Doc(body, imageCache, fetched), TheRow)} :
       SectionGS("groups", "outputGroupsGS", done)

NextSingle == OutputRowsGS \/ OutputColumnsGS \/ OutputGroupsGS

SpecSingle == InitSingle /\ [][NextSingle]_vars

---------------------------------------------------------------------------
(* The grid size of a row *)

\* what a cell of the scan window may hold
WindowCells ==
  { Cell(ImageV(<<>>), LiteralFormula(1)),
    Cell(ImageV(<<>>), <<"=","I","M","A","G","E","(",Q,"u",Q,")">>),
    Cell(ImageV(<<"u">>), <<>>),
    Cell(StrV(<<"C","e","l","l","I","m","a","g","e">>), <<>>),
    Cell(NumV(5), <<"=","u","(",")">>),
    Cell(EmptyV, <<>>) }

InitGridSize ==
  /\ \E img \in [1..6 -> WindowCells] :
       sheet = (TheRow :> [DefaultRow(6) EXCEPT !.img = img])
  /\ refs = [r \in RefNames |-> StrV(<<"u">>)]
  /\ answers = NoAnswers
  /\ array = <<>>
  /\ sections = <<>>
  /\ body = <<>>
  /\ imageCache = EmptyMap
  /\ fetched = EmptyMap
  /\ broken = {}
  /\ DriverIdle
  /\ pc = "start"
  /\ ret = [op |-> "none"]

\* one call getGridSize(TheRow) of sudoku.js
GetGridSize ==
  /\ pc = "start"
  /\ ret' = [op |-> "getGridSize", res |-> getGridSize(TheRow)]
  /\ pc' = "done"
  /\ UNCHANGED <<Driver, Source, array, sections, body, imageCache, fetched>>

\* one call getGridSize() of the second revision of part_000
GetGridSizeP2 ==
  /\ pc = "start"
  /\ ret' = [op |-> "getGridSizeP2", res |-> getGridSizeP2(TheRow)]
  /\ pc' = "done"
  /\ UNCHANGED <<Driver, Source, array, sections, body, imageCache, fetched>>

NextGridSize == GetGridSize \/ GetGridSizeP2

SpecGridSize == InitGridSize /\ [][NextGridSize]_vars

---------------------------------------------------------------------------
(* The image cache: calls of getImageBlob within one run *)

\* the fetches of one locator the model follows
MaxFetches == 3

\* the versions of its content a locator may serve
MaxVersions == 2

CacheUrls == {UrlOf(1), UrlOf(2), UrlOf(3)}

InitCache ==
  /\ sheet = (TheRow :> DefaultRow(6))
  /\ refs = [r \in RefNames |-> StrV(<<"u">>)]
  /\ answers = NoAnswers
  /\ array = <<>>
  /\ sections = <<>>
  /\ body = <<>>
  /\ imageCache = EmptyMap
  /\ fetched = EmptyMap
  /\ broken \in SUBSET CacheUrls
  /\ DriverIdle
  /\ pc = "start"
  /\ ret = [op |-> "none"]

\* one call getImageBlob(url); an error ends the run
GetImageBlob ==
  /\ pc \in {"start", "running"}
  /\ \E url \in CacheUrls, ver \in 1..MaxVersions :
       LET got == getImageBlob(imageCache, fetched, url, ver)
       IN  /\ Count(fetched, url) < MaxFetches
           /\ imageCache' = got.cache
           /\ fetched' = got.fetched
           /\ pc' = IF got.threw THEN "failed" ELSE "running"
           /\ ret' = [op |-> "getImageBlob", url |-> url, threw |-> got.threw,
                      blob |-> got.blob]
  /\ UNCHANGED <<Driver, Source, array, sections, body>>

NextCache == GetImageBlob

SpecCache == InitCache /\ [][NextCache]_vars

---------------------------------------------------------------------------
(* outputSection applied to sections *)

\* the longest section enumerated
MaxItems == 3

SectionValues == 1..3

TriedSections ==
  LET one == UNION {[1..k -> {Item(UrlOf(v), NumV(v)) : v \in SectionValues}] : k \in 0..MaxItems}
  IN  {<<s>> : s \in one} \cup {<<s, r>> : s \in one, r \in one}

InitSection ==
  /\ sheet = (TheRow :> DefaultRow(6))
  /\ refs = [r \in RefNames |-> StrV(<<"u">>)]
  /\ answers = NoAnswers
  /\ array = <<>>
  /\ sections \in TriedSections
  /\ body = <<>>
  /\ imageCache = EmptyMap
  /\ fetched = EmptyMap
  /\ broken \in {{}, {UrlOf(2)}}
  /\ DriverIdle
  /\ pc = "start"
  /\ ret = [op |-> "none", err |-> ""]

Rendering(op, done) ==
  /\ pc = "start"
  /\ body' = done.body
  /\ imageCache' = done.cache
  /\ fetched' = done.fetched
  /\ pc' = IF done.ok THEN "done" ELSE "failed"
  /\ ret' = [op |-> op, err |-> IF done.ok THEN "" ELSE "InsertImage"]
  /\ UNCHANGED <<Driver, Source, array, sections>>

\* outputSection of sudoku.js
OutputSection ==
  Rendering("outputSection",
            outputSection(Doc(body, imageCache, fetched), <<"ROWS", MUST_NOT_CONTAIN>>,
                          sections, "ROW"))

\* outputSection of the second revision of part_000
OutputSectionP2 ==
  Rendering("outputSectionP2",
            outputSectionP2(Doc(body, imageCache, fetched), <<"ROWS", MUST_NOT_CONTAIN>>,
                            sections, "ROW"))

\* outputSection of the first revision of part_000
OutputSectionP1 ==
  Rendering("outputSectionP1",
            outputSectionP1(Doc(body, imageCache, fetched), <<"ROWS", MUST_NOT_CONTAIN>>,
                            sections, "ROW"))

NextSection == OutputSection \/ OutputSectionP2 \/ OutputSectionP1

SpecSection == InitSection /\ [][NextSection]_vars

---------------------------------------------------------------------------
(* Properties of the validator (SpecValidate) *)

\* C1: validateSudokuArray(grid, row), with N the grid size of the row, returns
\* exactly for the grids of N rows of N cells that are each null or an integer
\* in [1, N]; it throws a dimension error when the row count or a row length
\* differs from N, and the cell-value error when the dimensions are right and a
\* cell is neither null nor an integer in [1, N] (0, N+1 and 2.5 included).
C1_ValidatorAcceptsExactlyIntegerGrids ==
  (pc = "done" /\ ret.op = "validateSudokuArray") =>
    LET N == getGridSize(TheRow).val
        dims == Len(array) = N /\ \A i \in 1..Len(array) : Len(array[i]) = N
        integerCell(c) == c.t = "null" \/ (c.t = "number" /\ ~c.half /\ c.n \in 1..N)
        cells == \A i \in 1..Len(array) : \A j \in 1..Len(array[i]) : integerCell(array[i][j])
    IN  /\ (ret.err = "") <=> (dims /\ cells)
        /\ ~dims => ret.err \in {"ArrayDimensions", "RowDimensions"}
        /\ (dims /\ ~cells) => ret.err = "CellValues"

---------------------------------------------------------------------------
(* Properties of the processing of a row (SpecRow) *)

\* C2: for N = 4 and N = 6 the list getGroupBoundaries(N) has N boundaries, every
\* cell (i, j) with 0 <= i, j < N lies inside exactly one of them, and every
\* boundary covers exactly N cells; the groups outputGroups lays out for a row
\* are those of the list for the grid size of the row.
C2_BoundariesPartitionGrid ==
  /\ \A N \in {GRID_SIZE_4, GRID_SIZE_6} :
       LET b == getGroupBoundaries(N)
           inside(g, i, j) == /\ b[g].rowStart <= i /\ i <= b[g].rowEnd
                              /\ b[g].colStart <= j /\ j <= b[g].colEnd
       IN  /\ Len(b) = N
           /\ \A i, j \in 0..(N - 1) : Cardinality({g \in 1..Len(b) : inside(g, i, j)}) = 1
           /\ \A g \in 1..Len(b) :
                Cardinality({c \in (0..(N - 1)) \X (0..(N - 1)) : inside(g, c[1], c[2])}) = N
  /\ (ret.op = "outputGroups" /\ ret.err \in {"", "InsertImage"}) =>
       Len(sections) = Len(getGroupBoundaries(getGridSize(TheRow).val))

\* outputGroups has laid out the groups of a 6x6 grid and some group is not empty
C2_GroupsLaidOut ==
  /\ pc = "groups"
  /\ ret.op = "outputGroups"
  /\ Len(sections) = GRID_SIZE_6
  /\ \E g \in 1..Len(sections) : Len(sections[g]) >= 2

\* C3 as stated: for every valid grid outputRows builds N slices, one per row in
\* row order, and slice i holds exactly the non-null cells of row i in column
\* order, each with its original value: nothing dropped, nothing added.
C3_RowSlicesHoldEveryNonNullCell ==
  (ret.op = "outputRows" /\ ret.err \in {"", "InsertImage"}) =>
    LET N == getGridSize(TheRow).val
        cols(i) == {j \in 1..N : array[i][j].t # "null"}
        kth(S, m) == CHOOSE x \in S : Cardinality({y \in S : y < x}) = m - 1
    IN  /\ Len(sections) = N
        /\ \A i \in 1..N :
             /\ Len(sections[i]) = Cardinality(cols(i))
             /\ \A m \in 1..Len(sections[i]) :
                  sections[i][m].value = array[i][kth(cols(i), m)]

\* C3: for every valid grid whose numbers all resolve, outputRows builds N
\* slices, one per row in row order, and slice i holds exactly the non-null
\* cells of row i whose resolved locator is not empty, in column order, each as
\* the pair of its locator and its original value.
C3_RowSlicesHoldLocatedCells ==
  (ret.op = "outputRows" /\ ret.err \in {"", "InsertImage"}) =>
    \E locators \in {[k \in 1..GRID_SIZE_6 |-> getImageFromCell(k, TheRow).url]} :
    LET N == getGridSize(TheRow).val
        loc(v) == locators[v.n]
        cols(i) == {j \in 1..N : array[i][j].t # "null" /\ loc(array[i][j]) # <<>>}
        kth(S, m) == CHOOSE x \in S : Cardinality({y \in S : y < x}) = m - 1
    IN  /\ Len(sections) = N
        /\ \A i \in 1..N :
             /\ Len(sections[i]) = Cardinality(cols(i))
             /\ \A m \in 1..Len(sections[i]) :
                  LET v == array[i][kth(cols(i), m)]
                  IN  sections[i][m] = Item(loc(v), v)

\* outputRows has returned for a 6x6 grid, a row slice holds several cells and
\* a non-null cell of the grid resolves to the empty locator
C3_RowsBuilt ==
  /\ pc = "rows"
  /\ ret.op = "outputRows"
  /\ Len(array) = GRID_SIZE_6
  /\ \E i \in 1..Len(sections) : Len(sections[i]) >= 3
  /\ \E i \in 1..Len(array) : \E j \in 1..Len(array[i]) :
       array[i][j].t # "null" /\ getImageFromCell(array[i][j].n, TheRow).url = <<>>

\* C4 as stated: for every valid grid outputColumns builds N slices, one per
\* column index in order, and slice j holds exactly the non-null cells
\* grid[0][j] .. grid[N-1][j] in row order, each with its original value.
C4_ColumnSlicesHoldEveryNonNullCell ==
  (ret.op = "outputColumns" /\ ret.err \in {"", "InsertImage"}) =>
    LET N == getGridSize(TheRow).val
        rows(j) == {i \in 1..N : array[i][j].t # "null"}
        kth(S, m) == CHOOSE x \in S : Cardinality({y \in S : y < x}) = m - 1
    IN  /\ Len(sections) = N
        /\ \A j \in 1..N :
             /\ Len(sections[j]) = Cardinality(rows(j))
             /\ \A m \in 1..Len(sections[j]) :
                  sections[j][m].value = array[kth(rows(j), m)][j]

\* C4: for every valid grid whose numbers all resolve, outputColumns builds N
\* slices, one per column index in order, and slice j holds exactly the non-null
\* cells of column j whose resolved locator is not empty, in row order, each as
\* the pair of its locator and its original value.
C4_ColumnSlicesHoldLocatedCells ==
  (ret.op = "outputColumns" /\ ret.err \in {"", "InsertImage"}) =>
    \E locators \in {[k \in 1..GRID_SIZE_6 |-> getImageFromCell(k, TheRow).url]} :
    LET N == getGridSize(TheRow).val
        loc(v) == locators[v.n]
        rows(j) == {i \in 1..N : array[i][j].t # "null" /\ loc(array[i][j]) # <<>>}
        kth(S, m) == CHOOSE x \in S : Cardinality({y \in S : y < x}) = m - 1
    IN  /\ Len(sections) = N
        /\ \A j \in 1..N :
             /\ Len(sections[j]) = Cardinality(rows(j))
             /\ \A m \in 1..Len(sections[j]) :
                  LET v == array[kth(rows(j), m)][j]
                  IN  sections[j][m] = Item(loc(v), v)

\* outputColumns has returned for a 6x6 grid, a column slice holds several cells
\* and a non-null cell of the grid resolves to the empty locator
C4_ColumnsBuilt ==
  /\ pc = "columns"
  /\ ret.op = "outputColumns"
  /\ Len(array) = GRID_SIZE_6
  /\ \E j \in 1..Len(sections) : Len(sections[j]) >= 3
  /\ \E i \in 1..Len(array) : \E j \in 1..Len(array[i]) :
       array[i][j].t # "null" /\ getImageFromCell(array[i][j].n, TheRow).url = <<>>

\* C5 as stated: for every valid grid outputGroups builds one slice per boundary
\* of the topology for N, in topology order, and each slice holds exactly the
\* non-null cells inside its boundary, row-major within the box; for the 4x4
\* grid with 1, 2, 3, 4 on the main diagonal the slices are {1,2}, {}, {}, {3,4}.
C5_GroupSlicesHoldEveryNonNullCell ==
  (ret.op = "outputGroups" /\ ret.err \in {"", "InsertImage"}) =>
    LET N == getGridSize(TheRow).val
        b == getGroupBoundaries(N)
        box(g) == {c \in (0..(N - 1)) \X (0..(N - 1)) :
                     /\ b[g].rowStart <= c[1] /\ c[1] <= b[g].rowEnd
                     /\ b[g].colStart <= c[2] /\ c[2] <= b[g].colEnd
                     /\ array[c[1] + 1][c[2] + 1].t # "null"}
        before(d, c) == d[1] < c[1] \/ (d[1] = c[1] /\ d[2] < c[2])
        kth(S, m) == CHOOSE c \in S : Cardinality({d \in S : before(d, c)}) = m - 1
        values(g) == [m \in 1..Len(sections[g]) |-> sections[g][m].value.n]
    IN  /\ Len(sections) = Len(b)
        /\ \A g \in 1..Len(b) :
             /\ Len(sections[g]) = Cardinality(box(g))
             /\ \A m \in 1..Len(sections[g]) :
                  LET c == kth(box(g), m)
                  IN  sections[g][m].value = array[c[1] + 1][c[2] + 1]
        /\ array = [i \in 1..4 |-> [j \in 1..4 |-> IF i = j THEN NumV(i) ELSE NullV]]
             => <<values(1), values(2), values(3), values(4)>> = << <<1, 2>>, <<>>, <<>>, <<3, 4>> >>

\* C5: for every valid grid whose numbers all resolve, outputGroups builds one
\* slice per boundary of the topology for N, in topology order, and each slice
\* holds exactly the non-null cells inside its boundary whose resolved locator is
\* not empty, row-major within the box, each as the pair of its locator and its
\* original value; for the 4x4 grid with 1, 2, 3, 4 on the main diagonal, all
\* four with a non-empty locator, the slices are {1,2}, {}, {}, {3,4}.
C5_GroupSlicesHoldLocatedCells ==
  (ret.op = "outputGroups" /\ ret.err \in {"", "InsertImage"}) =>
    \E locators \in {[k \in 1..GRID_SIZE_6 |-> getImageFromCell(k, TheRow).url]} :
    LET N == getGridSize(TheRow).val
        b == getGroupBoundaries(N)
        loc(v) == locators[v.n]
        box(g) == {c \in (0..(N - 1)) \X (0..(N - 1)) :
                     /\ b[g].rowStart <= c[1] /\ c[1] <= b[g].rowEnd
                     /\ b[g].colStart <= c[2] /\ c[2] <= b[g].colEnd
                     /\ array[c[1] + 1][c[2] + 1].t # "null"
                     /\ loc(array[c[1] + 1][c[2] + 1]) # <<>>}
        before(d, c) == d[1] < c[1] \/ (d[1] = c[1] /\ d[2] < c[2])
        kth(S, m) == CHOOSE c \in S : Cardinality({d \in S : before(d, c)}) = m - 1
        values(g) == [m \in 1..Len(sections[g]) |-> sections[g][m].value.n]
    IN  /\ Len(sections) = Len(b)
        /\ \A g \in 1..Len(b) :
             /\ Len(sections[g]) = Cardinality(box(g))
             /\ \A m \in 1..Len(sections[g]) :
                  \E c \in {kth(box(g), m)} :
                    LET v == array[c[1] + 1][c[2] + 1]
                    IN  sections[g][m] = Item(loc(v), v)
        /\ (/\ array = [i \in 1..4 |-> [j \in 1..4 |-> IF i = j THEN NumV(i) ELSE NullV]]
            /\ \A k \in 1..4 : loc(NumV(k)) # <<>>)
             => <<values(1), values(2), values(3), values(4)>> = << <<1, 2>>, <<>>, <<>>, <<3, 4>> >>

\* outputGroups has returned for the 4x4 grid with 1, 2, 3, 4 on the main
\* diagonal, whose numbers all have a non-empty locator
C5_DiagonalGroupsBuilt ==
  /\ pc = "groups"
  /\ ret.op = "outputGroups"
  /\ array = [i \in 1..4 |-> [j \in 1..4 |-> IF i = j THEN NumV(i) ELSE NullV]]
  /\ \A k \in 1..4 : getImageFromCell(k, TheRow).url # <<>>
  /\ Len(sections) = 4
  /\ Len(sections[1]) = 2
  /\ Len(sections[4]) = 2

\* C8: in sudoku.js, within the processing of one row, every rendering of the
\* same number uses the same locator, and each locator is fetched at most once.
C8_SameLocatorAndAtMostOneFetch ==
  /\ \A e, f \in 1..Len(body) :
       \A x \in 1..Len(body[e].images) : \A y \in 1..Len(body[f].images) :
         body[e].images[x].value = body[f].images[y].value
           => body[e].images[x].url = body[f].images[y].url
  /\ \A u \in DOMAIN fetched : fetched[u] <= 1

---------------------------------------------------------------------------
(* Properties of outputSection (SpecSection) *)

\* C6: in sudoku.js and in part_000, the images of every paragraph outputSection
\* writes are in non-decreasing order of their original value, whatever the
\* order in which the section listed them.
C6_ImagesInValueOrder ==
  \A e \in 1..Len(body) :
    \A m \in 1..(Len(body[e].images) - 1) :
      Twice(body[e].images[m].value) <= Twice(body[e].images[m + 1].value)

\* outputSection of sudoku.js has rendered a section that listed a larger value
\* before a smaller one, and all its images are in the paragraph
C6_UnorderedSectionRendered ==
  /\ pc = "done"
  /\ ret.op = "outputSection"
  /\ \E k \in 1..Len(sections) :
       /\ Len(sections[k]) >= 3
       /\ Twice(sections[k][1].value) > Twice(sections[k][2].value)
       /\ \E e \in 1..Len(body) :
            /\ body[e].type = "paragraph"
            /\ body[e].index = k
            /\ Len(body[e].images) = Len(sections[k])

---------------------------------------------------------------------------
(* Properties of the grid size (SpecGridSize) *)

\* C7: getGridSize(row) of sudoku.js, and getGridSize() of the second revision of
\* part_000, return 4 when exactly 4 of the 6 scanned cells match the image
\* predicate of the revision, return 6 when exactly 6 match, and throw the error
\* that cites the observed count for every other count; the call leaves the data
\* source as it was.
C7_GridSizeFromCount ==
  [][ (ret'.op \in {"getGridSize", "getGridSizeP2"}) =>
        LET window == sheet[TheRow].img
            count == IF ret'.op = "getGridSize"
                     THEN Cardinality({i \in 1..6 : IsImageCell(window[i])})
                     ELSE Cardinality({i \in 1..6 : IsImageFormulaCell(window[i])})
            res == ret'.res
        IN  /\ count = 4 => (res.ok /\ res.val = 4)
            /\ count = 6 => (res.ok /\ res.val = 6)
            /\ count \notin {4, 6} =>
                 (~res.ok /\ res.err = "InvalidGridSize" /\ res.count = count)
            /\ sheet' = sheet /\ refs' = refs /\ answers' = answers ]_vars

\* getGridSize of sudoku.js has thrown for a window with five images
C7_FiveImagesRejected ==
  /\ pc = "done"
  /\ ret.op = "getGridSize"
  /\ Cardinality({i \in 1..6 : IsImageCell(sheet[TheRow].img[i])}) = 5
  /\ ~ret.res.ok
  /\ ret.res.count = 5

---------------------------------------------------------------------------
(* Properties of the image cache (SpecCache) *)

\* C9: a call of getImageBlob for a URL that is not in the cache performs exactly
\* one fetch and, when the fetch succeeds, stores the blob under the URL and
\* returns it; a call for a URL in the cache performs no fetch and returns the
\* stored blob; no entry is removed or replaced, and each URL is fetched at most
\* once in a run.
C9_CacheFetchesOnce ==
  [][ (ret'.op = "getImageBlob") =>
        LET url == ret'.url
        IN  /\ url \notin DOMAIN imageCache =>
                 /\ fetched' = Bump(fetched, url)
                 /\ ~ret'.threw =>
                      (url \in DOMAIN imageCache' /\ imageCache'[url] = ret'.blob
                         /\ ret'.blob.contentType = "image/png" /\ ret'.blob.src = url)
            /\ url \in DOMAIN imageCache =>
                 (fetched' = fetched /\ ~ret'.threw /\ ret'.blob = imageCache[url])
            /\ \A x \in DOMAIN imageCache :
                 x \in DOMAIN imageCache' /\ imageCache'[x] = imageCache[x]
            /\ \A x \in DOMAIN fetched' : fetched'[x] <= 1 ]_vars

\* a URL has been fetched and stored, and the last call, for a URL of the cache,
\* returned the stored blob while the URL could now serve another version
C9_HitReturnedStoredBlob ==
  /\ pc = "running"
  /\ ret.op = "getImageBlob"
  /\ ret.url \in DOMAIN imageCache
  /\ ret.blob = imageCache[ret.url]
  /\ Count(fetched, ret.url) = 1
  /\ Cardinality(DOMAIN imageCache) >= 2

---------------------------------------------------------------------------
(* Properties of the address resolution (SpecResolve) *)

\* C10: getImageFromCell applied to a cell whose formula is =image(ARG), the
\* prefix in any case, returns (a) exactly S, and reads no second cell, when ARG
\* is the double-quoted literal "S", for every string S, those with '!' or ')'
\* included; (b) the string of the referenced cell when ARG is unquoted and is a
\* Sheet!Cell reference; (c) ARG itself when ARG is any other unquoted content.
C10_FormulaArgumentResolved ==
  (pc = "done" /\ ret.op = "getImageFromCell" /\ ret.num = TestNum
     /\ getAnswersSheetInfo(TheRow).ok) =>
    LET formula == sheet[TheRow].img[TestNum].formula
        isImage == /\ Len(formula) >= Len(IMAGE_PREFIX) + 1
                   /\ toLowerCase(SubSeq(formula, 1, Len(IMAGE_PREFIX))) = IMAGE_PREFIX
                   /\ formula[Len(formula)] = ")"
        ARG == SubSeq(formula, Len(IMAGE_PREFIX) + 1, Len(formula) - 1)
        quoted == Len(ARG) >= 2 /\ ARG[1] = Q /\ ARG[Len(ARG)] = Q
        plain == \A i \in 1..Len(ARG) : ARG[i] \notin {Q, ")"}
        res == ret.res
    IN  isImage =>
          /\ quoted =>
               (/\ res.ok
                /\ res.url = SubSeq(ARG, 2, Len(ARG) - 1)
                /\ \A i \in 1..Len(res.reads) : res.reads[i] # "ref")
          /\ (plain /\ ARG \in DOMAIN refs /\ refs[ARG].t = "string" /\ ~TrimIsEmpty(refs[ARG].s)) =>
               (res.ok /\ res.url = refs[ARG].s)
          /\ (plain /\ ARG # <<>> /\ \A i \in 1..Len(ARG) : ARG[i] # "!") =>
               (res.ok /\ res.url = ARG)

C12_OutOfRangeBeforeAnyCellRead ==
  (pc = "done" /\ ret.op = "getImageFromCell" /\ getAnswersSheetInfo(TheRow).ok) =>
    LET name == getAnswersSheetInfo(TheRow).sheetName
        N == IF \E i \in 1..Len(name) : name[i] = "6" THEN 6 ELSE 4
        res == ret.res
    IN  /\ (ret.num < 1 \/ ret.num > N) =>
             (/\ ~res.ok /\ res.err = "OutOfRange" /\ res.url = <<>>
              /\ \A i \in 1..Len(res.reads) : res.reads[i] \notin {"img", "ref"})
        /\ ret.num \in 1..N => res.err # "OutOfRange"

\* number 5 was asked for a row whose answers sheet is that of a 4x4 puzzle, and
\* the call has thrown the out-of-range error
C12_FiveOutOfRangeForFour ==
  /\ pc = "done"
  /\ ret.op = "getImageFromCell"
  /\ ret.num = 5
  /\ sheet[TheRow].C = Ref4
  /\ ret.res.err = "OutOfRange"

\* C14: getImageFromCell fails with the invalid-formula error, and returns no
\* locator, for every formula that starts with "=image(" in any case and from
\* which the pattern extracts no argument: a formula with no closing parenthesis
\* after the prefix, and a formula with an empty argument list (and no second
\* "=image(" further on).
C14_NoArgumentInvalidFormula ==
  (pc = "done" /\ ret.op = "getImageFromCell" /\ ret.num = TestNum
     /\ getAnswersSheetInfo(TheRow).ok) =>
    LET formula == sheet[TheRow].img[TestNum].formula
        n == Len(IMAGE_PREFIX)
        isImage == Len(formula) >= n /\ toLowerCase(SubSeq(formula, 1, n)) = IMAGE_PREFIX
        unclosed == \A i \in (n + 1)..Len(formula) : formula[i] # ")"
        emptyList == Len(formula) > n /\ formula[n + 1] = ")"
        again == \E p \in 2..Len(formula) :
                   /\ p + n - 1 <= Len(formula)
                   /\ toLowerCase(SubSeq(formula, p, p + n - 1)) = IMAGE_PREFIX
        res == ret.res
    IN  (isImage /\ (unclosed \/ (emptyList /\ ~again))) =>
          (/\ ~res.ok /\ res.url = <<>>
           /\ res.err = "InvalidFormula"
           /\ res.col = 65 + TestNum + 3)

\* the call has thrown the invalid-formula error for the formula =image()
C14_EmptyArgumentListThrown ==
  /\ pc = "done"
  /\ ret.op = "getImageFromCell"
  /\ ret.num = TestNum
  /\ sheet[TheRow].img[TestNum].formula = IMAGE_PREFIX \o <<")">>
  /\ getAnswersSheetInfo(TheRow).ok
  /\ ret.res.err = "InvalidFormula"

---------------------------------------------------------------------------
(* Properties of the cross-sheet references (SpecReference) *)

\* C13: when getImageFromCell follows a cross-sheet reference and the referenced
\* cell is empty or holds no string (in sudoku.js also when it holds only
\* blanks), the call fails with an error that names the reference and returns no
\* locator; when the cell holds a non-empty string the call returns that string
\* unchanged.
C13_ReferenceFollowed ==
  (pc = "done" /\ ret.op \in {"getImageFromCell", "getImageFromCellGS"} /\ ret.num = TestNum) =>
    LET formula == sheet[TheRow].img[TestNum].formula
        ARG == SubSeq(formula, Len(IMAGE_PREFIX) + 1, Len(formula) - 1)
        res == ret.res
    IN  ARG \in DOMAIN refs =>
          LET v == refs[ARG]
              noString == v.t # "string" \/ v.s = <<>>
              blank == v.t = "string" /\ v.s # <<>> /\ \A i \in 1..Len(v.s) : v.s[i] = " "
              refused == noString \/ (ret.op = "getImageFromCell" /\ blank)
          IN  /\ refused => (~res.ok /\ res.url = <<>> /\ res.ref = ARG)
              /\ ~refused => (res.ok /\ res.url = v.s)

\* getImageFromCell of sudoku.js has followed the reference u!u to an empty
\* cell and has thrown the error that names u!u
C13_EmptyReferenceThrown ==
  /\ pc = "done"
  /\ ret.op = "getImageFromCell"
  /\ ret.num = TestNum
  /\ refs[<<"u", "!", "u">>] = EmptyV
  /\ sheet[TheRow].img[TestNum].formula = IMAGE_PREFIX \o <<"u", "!", "u", ")">>
  /\ ret.res.err = "EmptyReference"
  /\ ret.res.ref = <<"u", "!", "u">>

---------------------------------------------------------------------------
(* Properties of the reference page (SpecRow) *)

\* C15: when createReferencePage returns for a grid of size N, what it appended
\* after the heading 'Reference Images' is N image paragraphs, one for each of
\* the numbers 1..N in ascending order, each followed by an empty spacing
\* paragraph; the paragraph of number k holds exactly N images, all of them the
\* resolved locator of k.
C15_ReferencePageShowsEachNumberNTimes ==
  (ret.op = "createReferencePage" /\ ret.err = "") =>
    \E N \in {getGridSize(TheRow).val} :
      \E locators \in {[k \in 1..N |-> getImageFromCell(k, TheRow).url]} :
        \E h \in 1..Len(body) :
          /\ body[h] = Heading(<<"Reference Images">>)
          /\ body[h - 1] = PageBreak
          /\ Len(body) = h + 2 * N
          /\ \A k \in 1..N :
               /\ body[h + 2 * k - 1] =
                    Paragraph(<<>>, 0, [i \in 1..N |-> Item(locators[k], NumV(k))])
               /\ body[h + 2 * k] = EmptyParagraph

\* createReferencePage has returned for a grid of size 6 whose number 2 has its
\* locator in a referenced cell
C15_ReferencePageOfSixBuilt ==
  /\ ret.op = "createReferencePage"
  /\ ret.err = ""
  /\ pc = "reference"
  /\ getGridSize(TheRow).val = 6
  /\ sheet[TheRow].img[2].formula = IMAGE_PREFIX \o <<"u", "!", "u", ")">>
  /\ body[Len(body) - 1].images = [i \in 1..6 |-> Item(UrlOf(6), NumV(6))]

---------------------------------------------------------------------------
(* Properties of the selection of given cells (SpecRow) *)

\* the cell of the answers sheet that grid position (i, j), counted from 1,
\* is read from: the start cell of column C moved by (i - 1, j - 1)
SourceRow(i) ==
  LET startCell == getAnswersSheetInfo(TheRow).startCell
  IN  DigitsValue(startCell, FirstDigitAt(startCell), 0) + i - 1
SourceColumn(j) ==
  LET startCell == getAnswersSheetInfo(TheRow).startCell
  IN  LetterNumber(startCell[FirstLetterAt(startCell)]) + j - 1

\* C16: once getSudokuPuzzle has built the grid of the row, with D the truth
\* value of column D: when D is true, cell (i, j) of the grid holds the value of
\* its source cell iff that cell is bold and holds an integer in [1, N], and
\* every section title written is '<AXIS> may only contain one of these values';
\* when D is false, cell (i, j) holds the value iff the source cell is not bold
\* and holds an integer in [1, N], and every title is '<AXIS> must not contain
\* any of these values'; every other cell is null.
C16_SelectionAndTitleFollowColumnD ==
  (pc \in {"puzzle", "rows", "columns", "groups"}) =>
    \E N \in {getGridSize(TheRow).val} :
      LET D == ~Falsy(sheet[TheRow].D)
          value(i, j) == answers.values[SourceRow(i)][SourceColumn(j)]
          bold(i, j) == answers.weight[SourceRow(i)][SourceColumn(j)] = "bold"
          inRange(v) == v.t = "number" /\ ~v.half /\ v.n \in 1..N
          declaration == IF D THEN MAY_ONLY_CONTAIN ELSE MUST_NOT_CONTAIN
          titles == {body[k].text : k \in {l \in 1..Len(body) : body[l].type = "heading"}}
          written == CASE pc = "puzzle" -> {}
                       [] pc = "rows" -> {"ROWS"}
                       [] pc = "columns" -> {"ROWS", "COLUMNS"}
                       [] pc = "groups" -> {"ROWS", "COLUMNS", "GROUPS"}
      IN  /\ Len(array) = N
          /\ \A i \in 1..N :
               /\ Len(array[i]) = N
               /\ \A j \in 1..N :
                    array[i][j] = IF (bold(i, j) <=> D) /\ inRange(value(i, j))
                                  THEN value(i, j) ELSE NullV
          /\ titles = {<<axis, declaration>> : axis \in written}

\* the three sections of a row whose column D holds 0 have been written for a
\* grid with flawed cells, one of them bold, and an unreadable font weight
C16_UnspecifiedCellsSelected ==
  /\ pc = "groups"
  /\ sheet[TheRow].D = NumV(0)
  /\ answers.values = Flawed4
  /\ answers.weight[2][2] = "bold"
  /\ answers.weight[4][4] = "error"
  /\ array[4][4] = NumV(4)
  /\ array[2][2] = NullV
  /\ array[1][2] = NullV
  /\ array[1][3] = NumV(4)

---------------------------------------------------------------------------
(* Properties of the grid sheet (SpecRow) *)

\* C20: when createSudokuGrid has returned for the row, the cells of the copied
\* template that hold 'X' are exactly the cells (i + 2, j + 2) of the grid
\* positions (i, j), counted from 0, whose source cell (the start cell of the
\* row moved by (i, j)) is bold and holds an integer in [1, N]; this for every
\* start cell.
C20_MarksAreTheSpecifiedCells ==
  (ret.op = "createSudokuGrid" /\ ret.err = "") =>
    \E N \in {getGridSize(TheRow).val} :
      LET value(i, j) == answers.values[SourceRow(i)][SourceColumn(j)]
          bold(i, j) == answers.weight[SourceRow(i)][SourceColumn(j)] = "bold"
          inRange(v) == v.t = "number" /\ ~v.half /\ v.n \in 1..N
          specified == {c \in (1..N) \X (1..N) :
                          bold(c[1], c[2]) /\ inRange(value(c[1], c[2]))}
      IN  SheetNamed(workbook, sheet[TheRow].A.s).marks = {<<c[1] + 1, c[2] + 1>> : c \in specified}

---------------------------------------------------------------------------
(* Properties of the batch driver (SpecMain) *)

\* the steps of a row, in the order of main
\* sheet.getRange(row, 1).getValue() for a row that has a shortname, and the
\* title of the document of the row
Shortname(r) == sheet[r].A.s
DocumentTitle(r) == <<"Mint Hulzo Coin - ", Shortname(r)>>

StepOrder ==
  <<"createDocument", "getSudokuPuzzle", "outputRows", "outputColumns", "outputGroups",
    "createReferencePage", "createAnswersSheet", "createSudokuGrid">>

\* the headings of the pages a document holds after the step of that number
PagesAfter(k) ==
  CASE k \in {1, 2} -> <<>>
    [] k = 3 -> <<"ROWS">>
    [] k = 4 -> <<"ROWS", "COLUMNS">>
    [] k = 5 -> <<"ROWS", "COLUMNS", "GROUPS">>
    [] k = 6 -> <<"ROWS", "COLUMNS", "GROUPS", "Reference Images">>
    [] k \in {7, 8} -> <<"ROWS", "COLUMNS", "GROUPS", "Reference Images", "Solution">>

IsHeading(element) == element.type = "heading"

\* C17: a step of main is the step that follows the last one in the order create
\* document, build grid, ROWS, COLUMNS, GROUPS, reference page, solution page,
\* grid-template copy, and works on the same row; the first step of a row comes
\* only at the start of the run or after the grid-template copy of the row
\* before it has returned; main moves to the next row only after that copy. So
\* at any time every row before the current one has its document and its grid
\* sheet, no later row has a document, and the document of the current row
\* holds the pages of the steps done, in that order.
C17_RowStepsInOrderAndRowsInTurn ==
  /\ [](/\ \A r \in TheRow..(curRow - 1) : ~NoShortname(r) => Shortname(r) \in SheetNames(workbook)
        /\ Len(docs) <= curRow - 1
        /\ \A k \in 1..Len(docs) : docs[k] = DocumentTitle(k + 1)
        /\ \A k \in 1..Len(StepOrder) :
             (ret.op = StepOrder[k] /\ ret.err = "") =>
               /\ Len(docs) = curRow - 1 \/ (k = Len(StepOrder) /\ Len(docs) = curRow - 2)
               /\ LET headings == SelectSeq(body, IsHeading)
                  IN  [h \in 1..Len(headings) |-> headings[h].text[1]] = PagesAfter(k))
  /\ [][/\ ret' # ret =>
             /\ curRow' = curRow
             /\ \E k \in 1..Len(StepOrder) :
                  /\ ret'.op = StepOrder[k]
                  /\ IF k = 1
                     THEN \/ ret.op = "none" /\ curRow = TheRow
                          \/ /\ ret.op = StepOrder[Len(StepOrder)]
                             /\ ret.err = ""
                             /\ Shortname(curRow - 1) \in SheetNames(workbook)
                             /\ Len(docs) = curRow - 2
                     ELSE ret.op = StepOrder[k - 1] /\ ret.err = ""
        /\ curRow' # curRow =>
             /\ curRow' = curRow + 1
             /\ ret' = ret
             /\ ret.op = "createSudokuGrid"
             /\ ret.err = ""]_vars

\* main has taken all the rows 2..LastRow through all their steps
C17_AllRowsProcessed ==
  /\ pc = "returned"
  /\ curRow = LastRow + 1
  /\ docs = [k \in 1..(LastRow - 1) |-> TitleOf(k + 1)]
  /\ SheetNames(workbook) = {NameOf(r) : r \in TheRow..LastRow}
  /\ \A r \in TheRow..LastRow : SheetNamed(workbook, NameOf(r)).marks = {<<i + 1, i + 1>> : i \in 1..4}

\* C18 (as stated): a row of 2..LastRow without a shortname is passed over
\* without an error, and when main returns every row with a shortname, the
\* later ones included, has been processed.
C18_LaterNamedRowsProcessed ==
  /\ (pc \in {"failed", "raised"}) => ~NoShortname(curRow)
  /\ pc = "returned" =>
       \A r \in TheRow..LastRow :
         ~NoShortname(r) => \E k \in 1..Len(docs) : docs[k] = DocumentTitle(r)

\* C18 (amended): the first row of 2..LastRow without a shortname ends the run
\* without an error: main returns there, the rows before it have been processed
\* and no row after it is.
C18_FirstUnnamedRowEndsBatch ==
  /\ (pc \in {"failed", "raised"}) => ~NoShortname(curRow)
  /\ pc = "returned" =>
       LET unnamed == {r \in TheRow..LastRow : NoShortname(r)}
           stop == IF unnamed = {} THEN LastRow + 1
                   ELSE CHOOSE r \in unnamed : \A q \in unnamed : r <= q
       IN  /\ curRow = stop
           /\ docs = [k \in 1..(stop - TheRow) |-> DocumentTitle(k + 1)]
           /\ SheetNames(workbook) = {Shortname(r) : r \in TheRow..(stop - 1)}
           /\ \A k \in 1..Len(log) : log[k].level # "error"

\* main has returned at row 3, which has no shortname, after row 2 and before
\* row 4, which has one
C18_ReturnedBeforeNamedRow ==
  /\ pc = "returned"
  /\ curRow = TheRow + 1
  /\ NoShortname(TheRow + 1)
  /\ ~NoShortname(TheRow + 2)
  /\ docs = <<TitleOf(TheRow)>>
  /\ log = <<[level |-> "log", msg |-> "Stopping"]>>

\* C19 (as stated): every error a collaborator raises, a failed read of a font
\* weight included, ends the run: the step that met it throws, no further step
\* runs, and main logs the error and raises it.
C19_EveryErrorFatal ==
  /\ [](/\ (\E k \in 1..Len(log) : log[k].msg = "FontWeight") => pc \in {"failed", "raised"}
        /\ ret.err # "" => pc \in {"failed", "raised"}
        /\ pc = "raised" => log[Len(log)] = [level |-> "error", msg |-> ret.err])
  /\ [][/\ pc # "raised"
        /\ pc = "failed" =>
             /\ pc' = "raised"
             /\ UNCHANGED <<sheet, refs, answers, array, sections, body, imageCache, fetched,
                            broken, ret, curRow, docs, workbook>>]_vars

\* C19 (amended): every error a step of row r throws ends the run: no further
\* step of the row and no step of a later row runs, and main logs the error and
\* raises it. A failed read of a font weight is not such an error: it is caught
\* where it happens and logged, and the cell counts as not bold (it is left out
\* of the grid when column D is true).
C19_ThrownErrorsFatal ==
  /\ [](/\ ret.err # "" => pc \in {"failed", "raised"}
        /\ pc = "raised" =>
             /\ ret.err # ""
             /\ log[Len(log)] = [level |-> "error", msg |-> ret.err]
             /\ Len(docs) = curRow - 1
        /\ (ret.op = "getSudokuPuzzle" /\ ret.err = "") =>
             /\ Len(SelectSeq(log, LAMBDA e : e.msg = "FontWeight")) >= PuzzleUnread(curRow)
             /\ LET startCell == getAnswersSheetInfo(curRow).startCell
                    r0 == DigitsValue(startCell, FirstDigitAt(startCell), 0) - 1
                    c0 == LetterNumber(startCell[FirstLetterAt(startCell)]) - 1
                    v(i, j) == ValueAt(r0 + i, c0 + j)
                    inRange(x) == x.t = "number" /\ ~x.half /\ x.n \in 1..Len(array)
                IN  \A i \in 1..Len(array) : \A j \in 1..Len(array[i]) :
                      WeightAt(r0 + i, c0 + j) = "error" =>
                        array[i][j] = IF ~Falsy(sheet[curRow].D) \/ ~inRange(v(i, j))
                                      THEN NullV ELSE v(i, j))
  /\ [][/\ pc # "raised"
        /\ pc = "failed" =>
             /\ pc' = "raised"
             /\ UNCHANGED <<sheet, refs, answers, array, sections, body, imageCache, fetched,
                            broken, ret, curRow, docs, workbook>>]_vars

\* main has raised the error of an image fetch of row 2 after a failed read of
\* a font weight was caught
C19_FetchErrorRaisedAfterCaughtRead ==
  /\ pc = "raised"
  /\ curRow = TheRow
  /\ ret.err = "InsertImage"
  /\ log = <<[level |-> "log", msg |-> "FontWeight"], [level |-> "error", msg |-> "InsertImage"]>>
  /\ docs = <<TitleOf(TheRow)>>
  /\ workbook.sheets = <<>>

\* C25 as stated: when a step of row r fails, and when main catches the error,
\* the documents created so far remain, the document of row r among them; the
\* body of that document keeps everything appended to it (it is empty when
\* getSudokuPuzzle is the step that failed); and every sheet of the target
\* spreadsheet remains as it was.
C25_FailureRemovesNothing ==
  /\ []((pc \in {"failed", "raised"}) =>
          /\ Len(docs) = curRow - 1
          /\ docs[Len(docs)] = DocumentTitle(curRow)
          /\ ret.op = "getSudokuPuzzle" => body = <<>>)
  /\ [][(pc' = "failed" \/ pc = "failed") =>
          /\ docs' = docs
          /\ Len(body') >= Len(body)
          /\ SubSeq(body', 1, Len(body)) = body
          /\ \A k \in 1..Len(workbook.sheets) :
                \E l \in 1..Len(workbook'.sheets) : workbook'.sheets[l] = workbook.sheets[k]]_vars

\* C25, amended: as above, but of the sheets of the target spreadsheet those
\* remain as they were that do not bear the shortname of row r; a sheet of that
\* name, which an earlier row of the same shortname has produced, is deleted by
\* createSudokuGrid(r) before it copies the template, also when the call fails
\* afterwards.
C25_FailureKeepsAllButNamesake ==
  /\ []((pc \in {"failed", "raised"}) =>
          /\ Len(docs) = curRow - 1
          /\ docs[Len(docs)] = DocumentTitle(curRow)
          /\ ret.op = "getSudokuPuzzle" => body = <<>>)
  /\ [][(pc' = "failed" \/ pc = "failed") =>
          /\ docs' = docs
          /\ Len(body') >= Len(body)
          /\ SubSeq(body', 1, Len(body)) = body
          /\ \A k \in 1..Len(workbook.sheets) :
                workbook.sheets[k].name # Shortname(curRow) =>
                  \E l \in 1..Len(workbook'.sheets) : workbook'.sheets[l] = workbook.sheets[k]]_vars

\* createSudokuGrid of row 3, a row of six images that bears the shortname of
\* row 2, has failed for want of the named range, and main has caught the
\* error: both documents and the five pages of the document of row 3 are
\* there, and the only sheet of the target is the unfinished copy for row 3
C25_NamesakeFailedAfterFivePages ==
  /\ pc = "raised"
  /\ curRow = TheRow + 1
  /\ ret = [op |-> "createSudokuGrid", err |-> "NamedRangeNotFound"]
  /\ docs = <<DocumentTitle(TheRow), DocumentTitle(TheRow)>>
  /\ [h \in 1..Len(SelectSeq(body, IsHeading)) |-> SelectSeq(body, IsHeading)[h].text[1]]
       = PagesAfter(7)
  /\ workbook.sheets = <<[name |-> Shortname(TheRow), longname |-> <<>>, marks |-> {}]>>

---------------------------------------------------------------------------
(* Properties of the slicing operations applied to any array (SpecSlice) *)

\* C21: outputRows, outputColumns and outputGroups validate the grid before
\* anything else: when validateSudokuArray rejects the grid, the operation
\* throws the error of the validation (not that of a locator), fetches nothing
\* and leaves the document body as it was; validateSudokuArray changes neither
\* the grid nor the data source nor the document, and a second call on the
\* same grid and row has the outcome of the first.
C21_ValidationFirstAndWithoutEffect ==
  [][/\ (ret'.op \in {"outputRows", "outputColumns", "outputGroups"}
           /\ validateSudokuArray(array, TheRow) # "") =>
          /\ ret'.err = validateSudokuArray(array, TheRow)
          /\ body' = body
          /\ fetched' = fetched
          /\ imageCache' = imageCache
          /\ array' = array
     /\ ret'.op = "validateSudokuArray" =>
          /\ array' = array
          /\ Source' = Source
          /\ body' = body
          /\ fetched' = fetched
          /\ (pc' = "again" => ret'.err = ret.err)]_vars

\* outputRows has thrown the error of the validation for a grid with a cell
\* of value 0, on a row whose image formula of number 1 cannot be resolved
C21_InvalidGridRejectedBeforeResolution ==
  /\ pc = "sliced"
  /\ ret.op = "outputRows"
  /\ ret.err = "CellValues"
  /\ array = [Solved4 EXCEPT ![1][2] = NumV(0)]
  /\ sheet[TheRow].img[1].formula = IMAGE_PREFIX \o <<"u">>
  /\ body = <<PageBreak>>
  /\ fetched = EmptyMap

\* C28: when getImageFromCell throws for some value of a grid that
\* validateSudokuArray accepts, outputRows, outputColumns and outputGroups
\* throw that error with the document body as it was before the call: no
\* header, no paragraph and no image has been appended, and nothing was
\* fetched.
C28_FailedResolutionLeavesBodyAsItWas ==
  [][(/\ ret'.op \in {"outputRows", "outputColumns", "outputGroups"}
      /\ validateSudokuArray(array, TheRow) = ""
      /\ \E i \in 1..Len(array) : \E j \in 1..Len(array[i]) :
            /\ array[i][j] # NullV
            /\ ~getImageFromCell(array[i][j].n, TheRow).ok) =>
       /\ \E i \in 1..Len(array) : \E j \in 1..Len(array[i]) :
             /\ array[i][j] # NullV
             /\ ~getImageFromCell(array[i][j].n, TheRow).ok
             /\ ret'.err = getImageFromCell(array[i][j].n, TheRow).err
       /\ body' = body
       /\ fetched' = fetched
       /\ imageCache' = imageCache]_vars

\* outputGroups has thrown for the solved grid on a row whose image formula of
\* number 1 is not closed, and the body holds what it held before
C28_UnclosedFormulaLeavesBody ==
  /\ pc = "sliced"
  /\ ret = [op |-> "outputGroups", err |-> "InvalidFormula"]
  /\ array = Solved4
  /\ sheet[TheRow].img[1].formula = IMAGE_PREFIX \o <<"u">>
  /\ body = <<PageBreak>>
  /\ fetched = EmptyMap

---------------------------------------------------------------------------
(* Further properties of the steps of one row (SpecRow) *)

\* the elements of the document that follow its last heading
LastPage ==
  LET headings == {k \in 1..Len(body) : IsHeading(body[k])}
      last == CHOOSE k \in headings : \A l \in headings : l <= k
  IN  IF headings = {} THEN <<>> ELSE SubSeq(body, last + 1, Len(body))

\* C23: when createAnswersSheet has returned for a row of size N, the page
\* 'Solution' consists of N paragraphs of images, each followed by an empty
\* paragraph; the j-th image of the i-th paragraph shows the value of cell
\* (i, j) of the solution window, given or not, with the locator of that value,
\* so the images stand in grid order. When some cell of the window holds no
\* integer in [1, N], createAnswersSheet fails and the page holds nothing after
\* its heading.
C23_SolutionPageShowsWholeGridInGridOrder ==
  (ret.op = "createAnswersSheet") =>
    \E N \in {getGridSize(TheRow).val} :
      LET value(i, j) == answers.values[SourceRow(i)][SourceColumn(j)]
          inRange(v) == v.t = "number" /\ ~v.half /\ v.n \in 1..N
          page == LastPage
      IN  /\ (\E i, j \in 1..N : ~inRange(value(i, j))) => (ret.err # "" /\ page = <<>>)
          /\ (ret.err = "") =>
               /\ Len(page) = 2 * N
               /\ \A i \in 1..N :
                    /\ page[2 * i] = EmptyParagraph
                    /\ page[2 * i - 1].type = "paragraph"
                    /\ page[2 * i - 1].text = <<>>
                    /\ page[2 * i - 1].images =
                         [j \in 1..N |-> Item(getImageFromCell(value(i, j).n, TheRow).url, value(i, j))]

\* the solution page of a 6x6 row none of whose cells is given: its second
\* paragraph shows 4 5 6 1 2 3
C23_UngivenSolutionRendered ==
  /\ ret = [op |-> "createAnswersSheet", err |-> ""]
  /\ getGridSize(TheRow).val = 6
  /\ \A i, j \in 1..6 : array[i][j] = NullV
  /\ [j \in 1..6 |-> LastPage[3].images[j].value.n] = <<4, 5, 6, 1, 2, 3>>

---------------------------------------------------------------------------
(* Properties of the errors of getImageFromCell (SpecAddress) *)

\* C24: when getImageFromCell(num) of sudoku.js or of sudoku.gs fails with
\* 'does not contain an image formula' or 'Invalid image formula', the column
\* letter in the message is the letter of the column of the cell it read for
\* num (the letter of column c has the character code 64 + c).
C24_ErrorNamesTheCellRead ==
  (pc = "done" /\ ret.res.err \in {"MissingFormula", "InvalidFormula"}) =>
    ret.res.col = 64 + (IF ret.op = "getImageFromCell" THEN ColumnRead(ret.num)
                        ELSE ColumnReadGS(ret.num))

\* C26: for a row on which getGridSize succeeds, the size that getImageFromCell
\* and getAnswers take from the name of the answers sheet (6 iff the name
\* contains '6', else 4) is the size getGridSize takes from the number of
\* images; so no slicing operation, which works on a grid that passed
\* validateSudokuArray, fails because getImageFromCell finds a value of the
\* grid out of range.
C26_SizeFromNameIsSizeFromImages ==
  /\ (pc \notin {"start", "doc"} /\ getGridSize(TheRow).ok /\ getAnswersSheetInfo(TheRow).ok) =>
       SizeFromName(getAnswersSheetInfo(TheRow).sheetName) = getGridSize(TheRow).val
  /\ (ret.op \in {"outputRows", "outputColumns", "outputGroups"}) => ret.err # "OutOfRange"

\* C27: whatever the cells of the answers sheet hold and whatever their font
\* weights are, the grid getSudokuPuzzle(row) returns has N rows of N cells,
\* each null or an integer in [1, N], with N = getGridSize(row), and
\* validateSudokuArray accepts it for the same row.
C27_PuzzleAcceptedByValidation ==
  (ret.op = "getSudokuPuzzle" /\ ret.err = "") =>
    \E N \in {getGridSize(TheRow).val} :
      /\ Len(array) = N
      /\ \A i \in 1..N :
           /\ Len(array[i]) = N
           /\ \A j \in 1..N :
                \/ array[i][j] = NullV
                \/ \E n \in 1..N : array[i][j] = NumV(n)
      /\ validateSudokuArray(array, TheRow) = ""

\* the grid built from a sheet with cells that hold 5, 2.5, 0, a string and
\* nothing, and with a font weight that cannot be read, when the cells that are
\* not bold are the selected ones
C27_FlawedCellsBecomeNull ==
  /\ ret = [op |-> "getSudokuPuzzle", err |-> ""]
  /\ answers.values = Flawed4
  /\ answers.weight[4][4] = "error"
  /\ Falsy(sheet[TheRow].D)
  /\ array[1][1] = NullV /\ array[1][2] = NullV /\ array[2][1] = NullV
  /\ array[3][3] = NullV /\ array[3][4] = NullV
  /\ array[4][4] = NumV(4)

\* C29: outputRows, outputColumns and outputGroups, the sort of outputSection
\* included, leave the grid as it is; so from the return of getSudokuPuzzle to
\* the end of the three operations the grid is the one getSudokuPuzzle built
\* from the answers sheet, and rows, columns and groups are slices of that one
\* grid.
C29_SlicingLeavesGridUnchanged ==
  /\ [][ret'.op \in {"outputRows", "outputColumns", "outputGroups"} => array' = array]_vars
  /\ []((\/ ret.op \in {"outputRows", "outputColumns", "outputGroups"}
         \/ (ret.op = "getSudokuPuzzle" /\ ret.err = "")) =>
          \E N \in {getGridSize(TheRow).val} :
            LET D == ~Falsy(sheet[TheRow].D)
                value(i, j) == answers.values[SourceRow(i)][SourceColumn(j)]
                bold(i, j) == answers.weight[SourceRow(i)][SourceColumn(j)] = "bold"
                inRange(v) == v.t = "number" /\ ~v.half /\ v.n \in 1..N
            IN  array = [i \in 1..N |-> [j \in 1..N |->
                           IF (bold(i, j) <=> D) /\ inRange(value(i, j))
                           THEN value(i, j) ELSE NullV]])

\* the three sections of a 6x6 row all of whose cells are given have been
\* written, the images of 'ROW 2' in the order 1 .. 6, and the second row of
\* the grid is still 4 5 6 1 2 3
C29_GridUnsortedAfterSortedSections ==
  /\ ret = [op |-> "outputGroups", err |-> ""]
  /\ array = Solved6
  /\ \E k \in 1..Len(body) :
       /\ body[k].type = "paragraph"
       /\ body[k].text = <<"ROW">>
       /\ body[k].index = 2
       /\ [j \in 1..Len(body[k].images) |-> body[k].images[j].value.n] = <<1, 2, 3, 4, 5, 6>>

---------------------------------------------------------------------------
(* Properties of repeated calls of createSudokuGrid (SpecGrid) *)

\* C30: after any sequence of calls of createSudokuGrid, whether they returned
\* or threw, no two sheets of the target spreadsheet bear the same name; and a
\* call adds a sheet only when the target held no sheet of the row's shortname:
\* a sheet of that name is replaced.
C30_OneSheetPerShortname ==
  /\ [](\A k, l \in 1..Len(workbook.sheets) :
          workbook.sheets[k].name = workbook.sheets[l].name => k = l)
  /\ [][\/ Len(workbook'.sheets) = Len(workbook.sheets)
        \/ /\ Len(workbook'.sheets) = Len(workbook.sheets) + 1
           /\ sheet[curRow'].A.s \notin SheetNames(workbook)]_vars

\* the grid sheet of row 2 has been made a second time, after that of row 3,
\* and the last call threw after it had copied the template
C30_SheetReplacedByFailingCall ==
  /\ ret.run >= 3
  /\ ret.err = "NamedRangeNotFound"
  /\ Len(workbook.sheets) = 2
  /\ workbook.sheets[1].name = NameOf(TheRow + 1)
  /\ workbook.sheets[2].name = NameOf(TheRow)

---------------------------------------------------------------------------
(* Properties of the sections of sudoku.gs (SpecSingle) *)

\* C22: in every ROW, COLUMN and GROUP paragraph sudoku.gs has written, the
\* images stand in non-decreasing order of the grid values they show.
C22_ImagesInValueOrderGS ==
  \A k \in 1..Len(body) :
    \A m \in 1..(Len(body[k].images) - 1) :
      Twice(body[k].images[m].value) <= Twice(body[k].images[m + 1].value)

=============================================================================
